---- MODULE Spec2Model ----
(***************************************************************************)
(* Resilience and traffic-control core of the analytics backend:           *)
(*   RateLimiter           src/src/security/middleware.py                  *)
(*   CircuitBreaker        src/src/utils/circuit_breaker.py                *)
(*   MemoryCache, FileCache, MultiLevelCache   src/src/utils/cache.py      *)
(*   SecurityEventMonitor  src/src/security/secure_logging.py              *)
(*   RateLimiter (blocking) src/src/utils/security.py                      *)
(* The components share no state; each has its own specification (SpecRL,  *)
(* SpecCB, SpecMem, SpecMulti, SpecStale, SpecConc, SpecFile, SpecPath,    *)
(* SpecMon, SpecAlert, SpecBlk, SpecSpan, SpecRace, SpecLive) over the      *)
(* variables of this module, with the other components' variables held     *)
(* still.                                                                  *)
(***************************************************************************)
EXTENDS Integers, Sequences, FiniteSets, TLC

VARIABLES
    now,                \* the reading time.time() returns
    \* ---- RateLimiter (security/middleware.py)
    request_history,    \* identifier -> deque of admitted timestamps
    burst_counter,      \* identifier -> int
    burst_reset_time,   \* identifier -> float
    rl_ret,             \* what the last is_allowed call returned
    rl_call,            \* caller -> where its is_allowed call stands between the checks and the recording
    burst_denials,      \* identifier -> burst denials since its last admission, 2 for more (history variable)
    \* ---- CircuitBreaker (utils/circuit_breaker.py)
    state,              \* CircuitState
    failure_count,
    last_failure_time,  \* NoTime for None
    cb_call,            \* caller -> where its call_async / call_sync stands
    cb_ret,             \* what the last step of a call did
    consecutive,        \* expected failures completed in a row (history variable)
    cb_before,          \* caller -> the state its call in flight found (history variable)
    reopened_at,        \* time of the last failed HALF_OPEN trial with no success or reset since (history variable)
    \* ---- MemoryCache, FileCache, MultiLevelCache (utils/cache.py)
    cache,              \* MemoryCache.cache: the entries in the dict's insertion order
    files,              \* the cache directory: path -> the record stored in the file
    touched,            \* the paths the last FileCache operation opened, wrote or unlinked
    c_ret,              \* what the last cache operation returned
    pending,            \* key -> the last MemoryCache.set of it, until the next operation on the key
    recency,            \* keys of MemoryCache.cache, least recently used first (history variable)
    path_key,           \* the key a run of the FileCache path check works on
    deleted_keys,       \* keys deleted through MultiLevelCache and not set since (history variable)
    ml_task,            \* caller -> where its MultiLevelCache call stands between two awaits
    \* ---- SecurityEventMonitor (security/secure_logging.py)
    event_counts,       \* event type -> identifier -> list of timestamps
    sec_log,            \* the records the last process_security_event call logged
    seen,               \* (event type, identifier) -> every timestamp processed (history variable)
    \* ---- blocking RateLimiter (utils/security.py)
    request_counts,     \* client_ip -> its minute and hour windows and counts
    blocked_ips,        \* client_ip -> block_until timestamp
    blk_ret,            \* what the last is_allowed call of this limiter returned
    denied_at           \* client_ip -> time of its last denial by a limit, NoTime for none (history variable)

rlVars == <<request_history, burst_counter, burst_reset_time, rl_ret, burst_denials, rl_call>>
cbVars == <<state, failure_count, last_failure_time, cb_call, cb_ret, consecutive,
           cb_before, reopened_at>>

cacheVars == <<cache, files, touched, c_ret, pending, recency, path_key, deleted_keys,
               ml_task>>

monVars == <<event_counts, sec_log, seen>>

blkVars == <<request_counts, blocked_ips, blk_ret, denied_at>>

vars == <<now, rlVars, cbVars, cacheVars, monVars, blkVars>>

notRL == <<cbVars, cacheVars, monVars, blkVars>>
notCB == <<rlVars, cacheVars, monVars, blkVars>>
notCache == <<rlVars, cbVars, monVars, blkVars>>
notMon == <<rlVars, cbVars, cacheVars, blkVars>>
notBlk == <<rlVars, cbVars, cacheVars, monVars>>

(***************************************************************************)
(* Python containers.                                                      *)
(***************************************************************************)
\* d[k] of a defaultdict / d.get(k, dflt) of a dict
DictGet(d, k, dflt) == IF k \in DOMAIN d THEN d[k] ELSE dflt

\* d[k] = v
DictPut(d, k, v) == [x \in (DOMAIN d) \cup {k} |-> IF x = k THEN v ELSE d[x]]

\* del d[k]
DictDel(d, k) == [x \in (DOMAIN d) \ {k} |-> d[x]]

EmptyDict == [x \in {} |-> 0]

\* None
None == "None"

\* no timestamp (self.last_failure_time = None)
NoTime == -1

(***************************************************************************)
(* The clock.  time.time() is read once per operation; between operations  *)
(* it moves to any later reading.  The readings are chosen so that every   *)
(* window of the components is met exactly and overshot by one second.     *)
(***************************************************************************)
Epoch == 1000

BurstWindow == 10
MinuteWindow == 60
HourWindow == 3600

RLOffsets == {0, BurstWindow, BurstWindow + 1, MinuteWindow, MinuteWindow + 1,
              HourWindow, HourWindow + 1}

RLClock == {Epoch + d : d \in RLOffsets}

TickIn(readings) ==
    /\ \E t \in readings : t > now /\ now' = t

(***************************************************************************)
(* RateLimiter (security/middleware.py)                                    *)
(***************************************************************************)
Identifiers == {"ip1", "ip2"}

\* the concurrent callers of one limiter, one breaker or one cache
Callers == {"c1", "c2"}

\* no is_allowed call of the caller is past its checks and short of its recording
NoCall == [pc |-> "idle", identifier |-> None, current_time |-> NoTime]

burst_limit == 1
requests_per_minute == 2
requests_per_hour == 3

\* while history and current_time - history[0] > 3600: history.popleft()
RECURSIVE cleanup_old_entries(_, _)
cleanup_old_entries(history, current_time) ==
    IF history # <<>> /\ current_time - Head(history) > HourWindow
    THEN cleanup_old_entries(Tail(history), current_time)
    ELSE history

\* sum(1 for timestamp in history if current_time - timestamp <= window)
CountWithin(history, current_time, window) ==
    LET In(timestamp) == current_time - timestamp <= window
    IN  Len(SelectSeq(history, In))

\* a slip: the sub-window over one second late
BurstWindowElapsedLate(current_time, reset_time) ==
    current_time - reset_time > BurstWindow + 1

\* a slip: the sub-window over at 10 s, not after
BurstWindowElapsedInclusive(current_time, reset_time) ==
    current_time - reset_time >= BurstWindow

\* if current_time - self.burst_reset_time[identifier] > 10
BurstWindowElapsed(current_time, reset_time) == current_time - reset_time > BurstWindow

\* a slip: the comparison made strict
BurstExceededStrict(counter) == counter > burst_limit

\* if self.burst_counter[identifier] >= self.burst_limit
BurstExceeded(counter) == counter >= burst_limit

\* a slip: the candidate request counted before the comparison
MinuteExceededInclusive(minute_count) == minute_count + 1 >= requests_per_minute

\* if minute_count >= self.requests_per_minute
MinuteExceeded(minute_count) == minute_count >= requests_per_minute

\* if hour_count >= self.requests_per_hour
HourExceeded(hour_count) == hour_count >= requests_per_hour

\* the burst counter the limit is compared with: zeroed when the window elapsed
EffectiveBurst(identifier, current_time) ==
    IF BurstWindowElapsed(current_time, DictGet(burst_reset_time, identifier, 0))
    THEN 0
    ELSE DictGet(burst_counter, identifier, 0)

\* a slip: the timestamp appended, the burst counter left as it was
RecordRequestUncounted(history, counter, current_time) ==
    [history |-> Append(history, current_time), counter |-> counter]

\* self.request_history[identifier].append(current_time); self.burst_counter[identifier] += 1
RecordRequest(history, counter, current_time) ==
    [history |-> Append(history, current_time), counter |-> counter + 1]

is_allowed(identifier) ==
    LET current_time == now
        history == cleanup_old_entries(DictGet(request_history, identifier, <<>>),
                                       current_time)
        elapsed == BurstWindowElapsed(current_time,
                                      DictGet(burst_reset_time, identifier, 0))
        counter == EffectiveBurst(identifier, current_time)
        reset_time == IF elapsed THEN current_time
                      ELSE DictGet(burst_reset_time, identifier, 0)
        minute_count == CountWithin(history, current_time, MinuteWindow)
        hour_count == CountWithin(history, current_time, HourWindow)
        reason == IF BurstExceeded(counter) THEN "burst"
                  ELSE IF MinuteExceeded(minute_count) THEN "minute"
                  ELSE IF HourExceeded(hour_count) THEN "hour"
                  ELSE None
        rec == RecordRequest(history, counter, current_time)
    IN  /\ burst_reset_time' = DictPut(burst_reset_time, identifier, reset_time)
        /\ IF reason = None
           THEN /\ request_history' = DictPut(request_history, identifier, rec.history)
                /\ burst_counter' = DictPut(burst_counter, identifier, rec.counter)
           ELSE /\ request_history' = DictPut(request_history, identifier, history)
                /\ burst_counter' = DictPut(burst_counter, identifier, counter)
        /\ rl_ret' = [identifier |-> identifier, allowed |-> reason = None,
                      reason |-> reason]
        /\ burst_denials' =
              [burst_denials EXCEPT ![identifier] =
                  IF reason = None THEN 0
                  ELSE IF reason = "burst" /\ @ < 2 THEN @ + 1
                  ELSE @]
        /\ UNCHANGED <<rl_call, now, notRL>>

RLTick == TickIn(RLClock) /\ UNCHANGED <<rlVars, notRL>>

RLCall == \E identifier \in Identifiers : is_allowed(identifier)

RLInit ==
    /\ request_history = EmptyDict
    /\ burst_counter = EmptyDict
    /\ burst_reset_time = EmptyDict
    /\ rl_ret = [identifier |-> None, allowed |-> FALSE, reason |-> None]
    /\ burst_denials = [identifier \in Identifiers |-> 0]
    /\ rl_call = [c \in Callers |-> NoCall]


(***************************************************************************)
(* CircuitBreaker (utils/circuit_breaker.py)                               *)
(* call_async and call_sync run the same steps: the state check (which may *)
(* move OPEN to HALF_OPEN), the wrapped operation, then _on_success or     *)
(* _on_failure.  Other callers (tasks at the await, threads) may run       *)
(* between the check and the operation's completion.                       *)
(***************************************************************************)
CLOSED == "closed"
OPEN == "open"
HALF_OPEN == "half_open"


failure_threshold == 3
timeout == 2


\* how the wrapped operation ends: it returns, raises an exception matching
\* expected_exception, or raises one that does not match
Outcomes == {"ok", "expected", "unexpected"}

\* the clock readings of the breaker's runs, and the cap on failure_count
CBHorizon == 5
MaxFailures == 5

CBClock == Epoch..(Epoch + CBHorizon)

\* a slip: the timeout compared the wrong way round
should_attempt_reset_early ==
    /\ last_failure_time # NoTime /\ last_failure_time # 0
    /\ now - last_failure_time <= timeout

\* a slip: the difference taken the wrong way round
should_attempt_reset_reversed ==
    /\ last_failure_time # NoTime /\ last_failure_time # 0
    /\ last_failure_time - now >= timeout

\* return self.last_failure_time and time.time() - self.last_failure_time >= self.timeout
should_attempt_reset ==
    /\ last_failure_time # NoTime /\ last_failure_time # 0
    /\ now - last_failure_time >= timeout

\* a slip: the threshold compared strictly
ThresholdReachedStrict(count) == count > failure_threshold

\* if self.failure_count >= self.failure_threshold
ThresholdReached(count) == count >= failure_threshold

\* a slip: success in HALF_OPEN closes the breaker but keeps the count
on_success_keep_count ==
    /\ failure_count' = failure_count
    /\ state' = CLOSED
    /\ UNCHANGED last_failure_time

\* a slip: the failure of a HALF_OPEN trial counted, its time not taken
on_failure_keep_time ==
    /\ failure_count' = failure_count + 1
    /\ last_failure_time' = IF state = HALF_OPEN THEN last_failure_time ELSE now
    /\ state' = IF failure_count + 1 >= failure_threshold THEN OPEN ELSE state

on_success ==
    /\ failure_count' = 0
    /\ state' = CLOSED
    /\ UNCHANGED last_failure_time

on_failure ==
    /\ failure_count' = failure_count + 1
    /\ last_failure_time' = now
    /\ state' = IF ThresholdReached(failure_count + 1) THEN OPEN ELSE state

Idle == [pc |-> "idle", entered |-> None]

\* a slip: the OPEN check lets the call through
call_begin_no_reject(c) ==
    /\ cb_call[c].pc = "idle"
    /\ state' = IF state = OPEN /\ should_attempt_reset THEN HALF_OPEN ELSE state
    /\ cb_call' = [cb_call EXCEPT ![c] = [pc |-> "running", entered |-> state']]
    /\ cb_ret' = [caller |-> c, did |-> "invoked", entered |-> state']
    /\ cb_before' = [cb_before EXCEPT ![c] = state]
    /\ UNCHANGED <<failure_count, last_failure_time, consecutive, reopened_at, now, notCB>>

\* call_async / call_sync up to the invocation of the wrapped operation
call_begin(c) ==
    /\ cb_call[c].pc = "idle"
    /\ IF state = OPEN /\ ~should_attempt_reset
       THEN \* raise CircuitBreakerError
            /\ cb_ret' = [caller |-> c, did |-> "CircuitBreakerError", entered |-> None]
            /\ UNCHANGED <<state, cb_call, cb_before>>
       ELSE /\ state' = IF state = OPEN THEN HALF_OPEN ELSE state
            /\ cb_call' = [cb_call EXCEPT ![c] = [pc |-> "running", entered |-> state']]
            /\ cb_ret' = [caller |-> c, did |-> "invoked", entered |-> state']
            /\ cb_before' = [cb_before EXCEPT ![c] = state]
    /\ UNCHANGED <<failure_count, last_failure_time, consecutive, reopened_at, now, notCB>>

\* the wrapped operation ends and the call returns or re-raises
call_finish(c, outcome) ==
    /\ cb_call[c].pc = "running"
    /\ CASE outcome = "ok" -> on_success /\ consecutive' = 0
         [] outcome = "expected" ->
                /\ failure_count < MaxFailures
                /\ on_failure
                /\ consecutive' = IF consecutive < failure_threshold
                                  THEN consecutive + 1 ELSE consecutive
         [] outcome = "unexpected" ->
                /\ UNCHANGED <<state, failure_count, last_failure_time>>
                /\ consecutive' = 0
    /\ cb_call' = [cb_call EXCEPT ![c] = Idle]
    /\ cb_ret' = [caller |-> c, did |-> outcome, entered |-> cb_call[c].entered]
    /\ cb_before' = [cb_before EXCEPT ![c] = None]
    /\ reopened_at' = CASE outcome = "ok" -> NoTime
                         [] outcome = "expected" /\ state = HALF_OPEN -> now
                         [] OTHER -> reopened_at
    /\ UNCHANGED <<now, notCB>>

reset ==
    /\ failure_count' = 0
    /\ last_failure_time' = NoTime
    /\ state' = CLOSED
    /\ consecutive' = 0
    /\ cb_ret' = [caller |-> None, did |-> "reset", entered |-> None]
    /\ reopened_at' = NoTime
    /\ UNCHANGED <<cb_call, cb_before, now, notCB>>

CBInit ==
    /\ failure_count = 0
    /\ last_failure_time = NoTime
    /\ state = CLOSED
    /\ cb_call = [c \in Callers |-> Idle]
    /\ cb_ret = [caller |-> None, did |-> None, entered |-> None]
    /\ consecutive = 0
    /\ cb_before = [c \in Callers |-> None]
    /\ reopened_at = NoTime

CBBegin == \E c \in Callers : call_begin(c)
CBFinish == \E c \in Callers, outcome \in Outcomes : call_finish(c, outcome)
CBTick == TickIn(CBClock) /\ UNCHANGED <<cbVars, notCB>>


(***************************************************************************)
(* SecurityEventMonitor (security/secure_logging.py).  A record of the log *)
(* keeps the event type, the level, the caller and the alert details; the  *)
(* timestamp string and the event id are left out.                         *)
(***************************************************************************)
\* the members of SecurityEventType that the runs use: two with a threshold,
\* one without
EventTypes == {"injection_attempt", "suspicious_activity", "data_access"}

\* self.alert_thresholds, for the types above
alert_thresholds ==
    [injection_attempt |-> [count |-> 3, window |-> 300],
     suspicious_activity |-> [count |-> 5, window |-> 600]]

Configured == {"injection_attempt", "suspicious_activity"}

\* the user_id and ip_address arguments
UserIds == {None, "u1"}
IpAddresses == {None, "ip1"}
MonIdentifiers == {"ip1", "u1", "unknown"}

\* events of the configured types processed in one run
MaxEvents == 3

MonOffsets == {0, 300, 301, 602}
MonClock == {Epoch + d : d \in MonOffsets}

NoDetails == [alert_type |-> None, event_type |-> None, identifier |-> None, count |-> 0]

\* SecureLogger.log_security_event: the record written to the security log
log_security_event(event_type, details, level, user_id, ip_address) ==
    [event_type |-> event_type, level |-> level, user_id |-> user_id,
     ip_address |-> ip_address, details |-> details]

\* ip_address or user_id or "unknown"
IdentifierOf(user_id, ip_address) ==
    IF ip_address # None THEN ip_address
    ELSE IF user_id # None THEN user_id
    ELSE "unknown"

\* a slip: an event exactly window seconds old is dropped
PruneEventsStrict(times, window_start) == SelectSeq(times, LAMBDA t : t > window_start)

\* [event_time for event_time in ... if event_time >= window_start]
PruneEvents(times, window_start) == SelectSeq(times, LAMBDA t : t >= window_start)

\* a slip: the alert only above the count
AlertDueStrict(event_count, threshold) == event_count > threshold.count

\* if event_count >= threshold['count']
AlertDue(event_count, threshold) == event_count >= threshold.count

\* SecurityEventMonitor._trigger_alert: the record it logs
trigger_alert(event_type, identifier, count) ==
    log_security_event("suspicious_activity",
                       [alert_type |-> "threshold_exceeded", event_type |-> event_type,
                        identifier |-> identifier, count |-> count],
                       "CRITICAL", None, None)

\* a slip: events of every type are counted, against the first threshold
check_alert_thresholds_any(counts, event_type, identifier, t) ==
    LET threshold == DictGet(alert_thresholds, event_type,
                             alert_thresholds["injection_attempt"])
        of_type == DictGet(counts, event_type, EmptyDict)
        times == PruneEvents(Append(DictGet(of_type, identifier, <<>>), t),
                             t - threshold.window)
    IN  [event_counts |-> DictPut(counts, event_type, DictPut(of_type, identifier, times)),
         logged |-> IF AlertDue(Len(times), threshold)
                    THEN <<trigger_alert(event_type, identifier, Len(times))>>
                    ELSE <<>>]

\* a slip: the alert handed to process_security_event, which counts it as a
\* suspicious_activity event of "unknown"
check_alert_thresholds_feedback(counts, event_type, identifier, t) ==
    IF event_type \notin DOMAIN alert_thresholds
    THEN [event_counts |-> counts, logged |-> <<>>]
    ELSE LET threshold == alert_thresholds[event_type]
             of_type == DictGet(counts, event_type, EmptyDict)
             times == PruneEvents(Append(DictGet(of_type, identifier, <<>>), t),
                                  t - threshold.window)
             counted == DictPut(counts, event_type, DictPut(of_type, identifier, times))
             alerts == DictGet(counted, "suspicious_activity", EmptyDict)
         IN  IF AlertDue(Len(times), threshold)
             THEN [event_counts |->
                       DictPut(counted, "suspicious_activity",
                               DictPut(alerts, "unknown",
                                       Append(DictGet(alerts, "unknown", <<>>), t))),
                   logged |-> <<trigger_alert(event_type, identifier, Len(times))>>]
             ELSE [event_counts |-> counted, logged |-> <<>>]

\* SecurityEventMonitor._check_alert_thresholds: the counters afterwards and
\* the records logged
check_alert_thresholds(counts, event_type, identifier, t) ==
    IF event_type \notin DOMAIN alert_thresholds
    THEN [event_counts |-> counts, logged |-> <<>>]
    ELSE LET threshold == alert_thresholds[event_type]
             of_type == DictGet(counts, event_type, EmptyDict)
             times == PruneEvents(Append(DictGet(of_type, identifier, <<>>), t),
                                  t - threshold.window)
         IN  [event_counts |-> DictPut(counts, event_type, DictPut(of_type, identifier, times)),
              logged |-> IF AlertDue(Len(times), threshold)
                         THEN <<trigger_alert(event_type, identifier, Len(times))>>
                         ELSE <<>>]

\* the number of events in the history of the pairs S
RECURSIVE EventsOf(_)
EventsOf(S) ==
    IF S = {} THEN 0
    ELSE LET pair == CHOOSE pair \in S : TRUE
         IN  Len(seen[pair]) + EventsOf(S \ {pair})

EventsSeen == EventsOf(DOMAIN seen)

\* SecurityEventMonitor.process_security_event
process_security_event(event_type, user_id, ip_address) ==
    LET identifier == IdentifierOf(user_id, ip_address)
        r == check_alert_thresholds(event_counts, event_type, identifier, now)
    IN  /\ event_counts' = r.event_counts
        /\ sec_log' = <<log_security_event(event_type, NoDetails, "WARNING",
                                           user_id, ip_address)>> \o r.logged
        /\ seen' = IF event_type \in Configured
                   THEN [seen EXCEPT ![<<event_type, identifier>>] = Append(@, now)]
                   ELSE seen
        /\ UNCHANGED <<now, notMon>>

MonInit ==
    /\ event_counts = EmptyDict
    /\ sec_log = <<>>
    /\ seen = [pair \in Configured \X MonIdentifiers |-> <<>>]

\* at most MaxEvents events of configured types in a run
MonEvent ==
    \E event_type \in EventTypes, user_id \in UserIds, ip_address \in IpAddresses :
        /\ event_type \in Configured => EventsSeen < MaxEvents
        /\ process_security_event(event_type, user_id, ip_address)

\* runs of one client: at most MaxRepeat events, all from the address "ip1"
MaxRepeat == 6

MonRepeat ==
    \E event_type \in Configured :
        /\ EventsSeen < MaxRepeat
        /\ process_security_event(event_type, None, "ip1")

MonTick == TickIn(MonClock) /\ UNCHANGED <<monVars, notMon>>

(***************************************************************************)
(* The blocking RateLimiter (utils/security.py).  datetime.now() is the    *)
(* clock reading in whole seconds; replace(second=0, ...) and              *)
(* replace(minute=0, ...) are the starts of its minute and of its hour.    *)
(***************************************************************************)
BlkClients == {"ip1", "ip2"}

\* the keyword arguments of is_allowed
blk_requests_per_minute == 2
blk_requests_per_hour == 3
block_duration == 61

\* current_time.replace(second=0, microsecond=0)
MinuteOf(t) == t - (t % MinuteWindow)

\* current_time.replace(minute=0, second=0, microsecond=0)
HourOf(t) == t - (t % HourWindow)

\* the readings: around the end of a block that starts at Epoch, around the
\* start of the next hour, and the start of the hour after that
BlkOffsets == {0, 1, block_duration - 1, block_duration, block_duration + 1}

BlkClock == {Epoch + d : d \in BlkOffsets}
                \cup {HourOf(Epoch) + HourWindow + d - 1 : d \in BlkOffsets}
                \cup {HourOf(Epoch) + 2 * HourWindow}

\* a slip: the block ends one second early
StillBlockedEarly(b, client_ip, t) == client_ip \in DOMAIN b /\ t + 1 < b[client_ip]

\* client_ip in self.blocked_ips and current_time.timestamp() < self.blocked_ips[client_ip]
StillBlocked(b, client_ip, t) == client_ip \in DOMAIN b /\ t < b[client_ip]

NewCounts(t) ==
    [minute_window |-> MinuteOf(t), minute_count |-> 0,
     hour_window |-> HourOf(t), hour_count |-> 0]

\* client_data after the two window checks
RolledOver(client_data, t) ==
    LET m == IF client_data.minute_window # MinuteOf(t)
             THEN [client_data EXCEPT !.minute_window = MinuteOf(t), !.minute_count = 0]
             ELSE client_data
    IN  IF m.hour_window # HourOf(t)
        THEN [m EXCEPT !.hour_window = HourOf(t), !.hour_count = 0]
        ELSE m

LimitReached(client_data) ==
    \/ client_data.minute_count >= blk_requests_per_minute
    \/ client_data.hour_count >= blk_requests_per_hour

\* RateLimiter.is_allowed of utils/security.py
blocking_is_allowed(client_ip) ==
    LET unblocked == IF client_ip \in DOMAIN blocked_ips
                     THEN DictDel(blocked_ips, client_ip) ELSE blocked_ips
        client_data == RolledOver(DictGet(request_counts, client_ip, NewCounts(now)), now)
    IN  /\ IF StillBlocked(blocked_ips, client_ip, now)
           THEN /\ blk_ret' = [client_ip |-> client_ip, allowed |-> FALSE,
                               reason |-> "blocked"]
                /\ UNCHANGED <<request_counts, blocked_ips, denied_at>>
           ELSE IF LimitReached(client_data)
           THEN /\ request_counts' = DictPut(request_counts, client_ip, client_data)
                /\ blocked_ips' = DictPut(unblocked, client_ip, now + block_duration)
                /\ blk_ret' = [client_ip |-> client_ip, allowed |-> FALSE,
                               reason |-> "limit"]
                /\ denied_at' = [denied_at EXCEPT ![client_ip] = now]
           ELSE /\ request_counts' =
                       DictPut(request_counts, client_ip,
                               [client_data EXCEPT !.minute_count = @ + 1,
                                                   !.hour_count = @ + 1])
                /\ blocked_ips' = unblocked
                /\ blk_ret' = [client_ip |-> client_ip, allowed |-> TRUE, reason |-> None]
                /\ UNCHANGED denied_at
        /\ UNCHANGED <<now, notBlk>>

\* RateLimiter.cleanup_old_entries of utils/security.py
blocking_cleanup_old_entries ==
    /\ blocked_ips' = [ip \in {i \in DOMAIN blocked_ips : ~(now >= blocked_ips[i])}
                          |-> blocked_ips[ip]]
    /\ request_counts' =
           [ip \in {i \in DOMAIN request_counts :
                        ~(request_counts[i].hour_window < HourOf(now - HourWindow))}
               |-> request_counts[ip]]
    /\ UNCHANGED <<blk_ret, denied_at, now, notBlk>>

BlkInit ==
    /\ request_counts = EmptyDict
    /\ blocked_ips = EmptyDict
    /\ blk_ret = [client_ip |-> None, allowed |-> FALSE, reason |-> None]
    /\ denied_at = [client_ip \in BlkClients |-> NoTime]

BlkCall == \E client_ip \in BlkClients : blocking_is_allowed(client_ip)

BlkTick == TickIn(BlkClock) /\ UNCHANGED <<blkVars, notBlk>>

(***************************************************************************)
(* CacheEntry and MemoryCache (utils/cache.py).  Every MemoryCache method  *)
(* runs under self._lock, so each is one step.  access_count is written on *)
(* access and read by nothing; it is left out.                             *)
(***************************************************************************)
\* ttl = None
NoTTL == -1

\* the keys: "a", "b", and "../a" (a traversal attempt that sanitizes to "a")
Ka == <<"a">>
Kb == <<"b">>
Kc == <<".", ".", "/", "a">>
CacheKeys == {Ka, Kb, Kc}

\* the (value, ttl) arguments of the set calls: the string with the default ttl,
\* the tuple with ttl 0
SetArgs == {<<"v1", NoTTL>>, <<"(1,2)", 0>>}

max_size == 2
memory_ttl == 1
file_ttl == 2
CacheHorizon == 1

CacheClock == Epoch..(Epoch + CacheHorizon)

\* CacheEntry(value, ttl) created at time t
CacheEntry(key, value, ttl, t) ==
    [key |-> key, value |-> value, created_at |-> t, ttl |-> ttl, last_accessed |-> t]

\* a slip: the entry expires at ttl, not after it
is_expired_at_ttl(entry, t) ==
    IF entry.ttl = NoTTL THEN FALSE ELSE t - entry.created_at >= entry.ttl

\* CacheEntry.is_expired
is_expired(entry, t) ==
    IF entry.ttl = NoTTL THEN FALSE ELSE t - entry.created_at > entry.ttl

KeysOf(c) == {c[i].key : i \in 1..Len(c)}

IndexOf(c, key) == CHOOSE i \in 1..Len(c) : c[i].key = key

\* del self.cache[key]
Without(c, key) == SelectSeq(c, LAMBDA e : e.key # key)

\* self.cache[key] = entry: in place for a key the dict holds, at the end otherwise
Assign(c, entry) ==
    IF entry.key \in KeysOf(c)
    THEN [c EXCEPT ![IndexOf(c, entry.key)] = entry]
    ELSE Append(c, entry)

\* min(self.cache.keys(), key=lambda k: self.cache[k].last_accessed): the first
\* key, in the dict's order, whose last_accessed is minimal
lru_key(c) ==
    LET i == CHOOSE i \in 1..Len(c) :
                /\ \A j \in 1..Len(c) : c[i].last_accessed <= c[j].last_accessed
                /\ \A j \in 1..(i - 1) : c[j].last_accessed > c[i].last_accessed
    IN  c[i].key

\* MemoryCache._evict_lru
evict_lru(c) == IF c = <<>> THEN c ELSE Without(c, lru_key(c))

\* a slip: eviction only once the cache is over its size
NeedsEvictionLate(c, key) == Len(c) > max_size /\ key \notin KeysOf(c)

\* a slip: eviction also when the key is already held
NeedsEvictionAlways(c, key) == Len(c) >= max_size

\* if len(self.cache) >= self.max_size and key not in self.cache
NeedsEviction(c, key) == Len(c) >= max_size /\ key \notin KeysOf(c)

\* no key, and no debug line
NoKey == <<>>
NoLog == <<>>
Expired == <<"expired">>
LRUEvicted(key) == <<"LRU evicted", key>>

\* MemoryCache.get on the map c at time t: the map afterwards and the value returned
MemGet(c, key, t) ==
    IF key \notin KeysOf(c) THEN [cache |-> c, value |-> None, log |-> NoLog]
    ELSE LET entry == c[IndexOf(c, key)]
         IN  IF is_expired(entry, t)
             THEN [cache |-> Without(c, key), value |-> None, log |-> Expired]
             ELSE [cache |-> [c EXCEPT ![IndexOf(c, key)].last_accessed = t],
                   value |-> entry.value, log |-> NoLog]

\* MemoryCache.set on the map c at time t; ttl None becomes dflt
MemSet(c, key, value, ttl, dflt, t) ==
    LET ttl1 == IF ttl = NoTTL THEN dflt ELSE ttl
        c1 == IF NeedsEviction(c, key) THEN evict_lru(c) ELSE c
    IN  [cache |-> Assign(c1, CacheEntry(key, value, ttl1, t)),
         log |-> IF KeysOf(c1) # KeysOf(c) THEN LRUEvicted(lru_key(c)) ELSE NoLog]

\* MemoryCache.delete
MemDelete(c, key) ==
    [cache |-> Without(c, key), deleted |-> key \in KeysOf(c)]

NoPending == [value |-> None, ttl |-> NoTTL, at |-> NoTime, is |-> "none"]

\* the history variables after the map went from c to c1 by an operation op on key
PendingAfter(op, key, c, c1, value, ttl, t) ==
    [k \in CacheKeys |->
        IF op = "clear" THEN NoPending
        ELSE IF k = key
        THEN IF op = "set"
             THEN [value |-> value, ttl |-> ttl, at |-> t, is |-> "set"]
             ELSE NoPending
        ELSE IF k \in KeysOf(c) \ KeysOf(c1) /\ pending[k].is = "set"
             THEN [pending[k] EXCEPT !.is = "evicted"]
             ELSE pending[k]]

\* the keys still held, in the order of their last use (a set, or a get that hit)
RecencyAfter(key, c1) ==
    LET kept == SelectSeq(recency, LAMBDA k : k \in KeysOf(c1) /\ k # key)
    IN  IF key \in KeysOf(c1) THEN Append(kept, key) ELSE kept

\* what an operation gave back: the value returned and the logger.debug line of
\* an expiry or an eviction
Ret(op, key, value, log) == [op |-> op, key |-> key, value |-> value, log |-> log]

\* a bool as the returned value
Bool(b) == IF b THEN "True" ELSE "False"

memory_get(key) ==
    LET r == MemGet(cache, key, now)
    IN  /\ cache' = r.cache
        /\ c_ret' = Ret("memory.get", key, r.value, r.log)
        /\ pending' = PendingAfter("get", key, cache, r.cache, None, NoTTL, now)
        /\ recency' = RecencyAfter(key, r.cache)
        /\ UNCHANGED <<files, touched, path_key, deleted_keys, ml_task, now, notCache>>

memory_set(key, value, ttl) ==
    LET r == MemSet(cache, key, value, ttl, memory_ttl, now)
        c1 == r.cache
    IN  /\ cache' = c1
        /\ c_ret' = Ret("memory.set", key, None, r.log)
        /\ pending' = PendingAfter("set", key, cache, c1, value,
                                   IF ttl = NoTTL THEN memory_ttl ELSE ttl, now)
        /\ recency' = RecencyAfter(key, c1)
        /\ deleted_keys' = deleted_keys \ {key}
        /\ UNCHANGED ml_task
        /\ UNCHANGED <<files, touched, path_key, now, notCache>>

memory_delete(key) ==
    LET r == MemDelete(cache, key)
    IN  /\ cache' = r.cache
        /\ c_ret' = Ret("memory.delete", key, Bool(r.deleted), NoLog)
        /\ pending' = PendingAfter("delete", key, cache, r.cache, None, NoTTL, now)
        /\ recency' = RecencyAfter(key, r.cache)
        /\ UNCHANGED <<files, touched, path_key, deleted_keys, ml_task, now, notCache>>

memory_clear ==
    /\ cache' = <<>>
    /\ c_ret' = Ret("memory.clear", NoKey, None, NoLog)
    /\ pending' = [k \in CacheKeys |-> NoPending]
    /\ recency' = <<>>
    /\ UNCHANGED <<files, touched, path_key, deleted_keys, ml_task, now, notCache>>

\* no MultiLevelCache call of the caller is between two awaits
NoTask == [op |-> "idle", pc |-> "idle", value |-> None, after_delete |-> FALSE,
           only_sets |-> FALSE, no_set |-> FALSE]

CacheInit ==
    /\ cache = <<>>
    /\ files = EmptyDict
    /\ touched = {}
    /\ c_ret = Ret(None, NoKey, None, NoLog)
    /\ pending = [k \in CacheKeys |-> NoPending]
    /\ recency = <<>>
    /\ path_key = Ka
    /\ deleted_keys = {}
    /\ ml_task = [c \in Callers |-> NoTask]

MemGetStep == \E key \in CacheKeys : memory_get(key)
MemSetStep == \E key \in CacheKeys, a \in SetArgs : memory_set(key, a[1], a[2])
MemDeleteStep == \E key \in CacheKeys : memory_delete(key)
CacheTick == TickIn(CacheClock) /\ UNCHANGED <<cacheVars, notCache>>

(***************************************************************************)
(* FileCache (utils/cache.py).  Strings are sequences of characters; a     *)
(* path is the sequence of its components.                                 *)
(***************************************************************************)
\* self.cache_dir, resolved
cache_dir == << <<"c">> >>

SafeKeyMax == 100

\* the characters of the model for which str.isalnum() holds
AlnumChars == {"a", "b", "d", "e", "f", "l", "t", "u"}

\* c.isalnum() or c in '_-'
SafeChar(ch) == ch \in AlnumChars \/ ch \in {"_", "-"}

Truncate(str, n) == IF Len(str) > n THEN SubSeq(str, 1, n) ELSE str

\* ''.join(c for c in key if c.isalnum() or c in '_-')[:100] or 'default'
safe_key(key) ==
    LET kept == Truncate(SelectSeq(key, SafeChar), SafeKeyMax)
    IN  IF kept = <<>> THEN <<"d", "e", "f", "a", "u", "l", "t">> ELSE kept

\* two hexadecimal digits per character
HexOf(ch) ==
    CASE ch = "a" -> <<"6", "1">>
      [] ch = "b" -> <<"6", "2">>
      [] ch = "d" -> <<"6", "4">>
      [] ch = "e" -> <<"6", "5">>
      [] ch = "f" -> <<"6", "6">>
      [] ch = "l" -> <<"6", "c">>
      [] ch = "t" -> <<"7", "4">>
      [] ch = "u" -> <<"7", "5">>
      [] ch = "_" -> <<"5", "f">>
      [] ch = "-" -> <<"2", "d">>
      [] ch = "." -> <<"2", "e">>
      [] ch = "/" -> <<"2", "f">>

\* hashlib.sha256(s.encode()).hexdigest(): a string of hexadecimal digits, taken
\* here to be different for different s (no collisions)
RECURSIVE hexdigest(_)
hexdigest(str) == IF str = <<>> THEN <<>> ELSE HexOf(Head(str)) \o hexdigest(Tail(str))

\* f"{key_hash}.cache"
cache_file_name(key) == hexdigest(safe_key(key)) \o <<".cache">>

\* the components of a path string: the runs of characters between "/"
RECURSIVE SplitPath(_, _)
SplitPath(str, cur) ==
    IF str = <<>> THEN (IF cur = <<>> THEN <<>> ELSE <<cur>>)
    ELSE IF Head(str) = "/"
         THEN (IF cur = <<>> THEN <<>> ELSE <<cur>>) \o SplitPath(Tail(str), <<>>)
         ELSE SplitPath(Tail(str), Append(cur, Head(str)))

\* Path.__truediv__: an absolute right operand replaces the left one
PathJoin(dir, name) ==
    IF name # <<>> /\ Head(name) = "/" THEN SplitPath(name, <<>>)
    ELSE dir \o SplitPath(name, <<>>)

\* Path.resolve(): "." dropped, ".." removes the component before it
RECURSIVE Resolve(_, _)
Resolve(path, done) ==
    IF path = <<>> THEN done
    ELSE IF Head(path) = <<".">> THEN Resolve(Tail(path), done)
    ELSE IF Head(path) = <<".", ".">>
         THEN Resolve(Tail(path),
                      IF done = <<>> THEN done ELSE SubSeq(done, 1, Len(done) - 1))
         ELSE Resolve(Tail(path), Append(done, Head(path)))

\* str(path)
RECURSIVE PathStr(_)
PathStr(path) ==
    IF path = <<>> THEN <<>> ELSE <<"/">> \o Head(path) \o PathStr(Tail(path))

\* a.startswith(b)
StartsWith(a, b) == Len(a) >= Len(b) /\ SubSeq(a, 1, Len(b)) = b

\* a slip: the file named by the raw key, and no check of the resolved path
get_cache_path_unchecked(key) ==
    Resolve(PathJoin(cache_dir, key \o <<".", "c", "a", "c", "h", "e">>), <<>>)

\* FileCache._get_cache_path: the path, or ValueError
get_cache_path(key) ==
    LET cache_path == Resolve(PathJoin(cache_dir, cache_file_name(key)), <<>>)
    IN  IF ~StartsWith(PathStr(cache_path), PathStr(Resolve(cache_dir, <<>>)))
        THEN "ValueError"
        ELSE cache_path

\* json.dump(...) then json.load(...): a tuple comes back as a list
JsonRoundTrip(value) == IF value = "(1,2)" THEN "[1,2]" ELSE value

\* FileCache.get on the directory f at time t
FileGet(f, key, t) ==
    LET cache_path == get_cache_path(key)
    IN  IF cache_path = "ValueError"
        THEN [files |-> f, value |-> "ValueError", touched |-> {}, deleted |-> FALSE]
        ELSE IF cache_path \notin DOMAIN f
        THEN [files |-> f, value |-> None, touched |-> {}, deleted |-> FALSE]
        ELSE IF is_expired(f[cache_path], t)
        THEN [files |-> DictDel(f, cache_path), value |-> None, touched |-> {cache_path},
              deleted |-> TRUE]
        ELSE [files |-> f, value |-> f[cache_path].value, touched |-> {cache_path},
              deleted |-> FALSE]

\* FileCache.set
FileSet(f, key, value, ttl, dflt, t) ==
    LET cache_path == get_cache_path(key)
        entry_data == [value |-> JsonRoundTrip(value), created_at |-> t,
                       ttl |-> IF ttl = NoTTL THEN dflt ELSE ttl]
    IN  IF cache_path = "ValueError"
        THEN [files |-> f, value |-> "ValueError", touched |-> {}, deleted |-> FALSE]
        ELSE [files |-> DictPut(f, cache_path, entry_data), value |-> None,
              touched |-> {cache_path}, deleted |-> FALSE]

\* FileCache.delete
FileDelete(f, key) ==
    LET cache_path == get_cache_path(key)
    IN  IF cache_path = "ValueError"
        THEN [files |-> f, value |-> "ValueError", touched |-> {}, deleted |-> FALSE]
        ELSE IF cache_path \in DOMAIN f
        THEN [files |-> DictDel(f, cache_path), value |-> "True", touched |-> {cache_path},
              deleted |-> TRUE]
        ELSE [files |-> f, value |-> "False", touched |-> {}, deleted |-> FALSE]

file_get(key) ==
    LET r == FileGet(files, key, now)
    IN  /\ files' = r.files
        /\ touched' = r.touched
        /\ c_ret' = Ret("file.get", key, r.value, IF r.deleted THEN Expired ELSE NoLog)
        /\ UNCHANGED <<cache, pending, recency, path_key, deleted_keys, ml_task, now, notCache>>

file_set(key, value, ttl) ==
    LET r == FileSet(files, key, value, ttl, file_ttl, now)
    IN  /\ files' = r.files
        /\ touched' = r.touched
        /\ c_ret' = Ret("file.set", key, r.value, NoLog)
        /\ deleted_keys' = deleted_keys \ {key}
        /\ UNCHANGED ml_task
        /\ UNCHANGED <<cache, pending, recency, path_key, now, notCache>>

file_delete(key) ==
    LET r == FileDelete(files, key)
    IN  /\ files' = r.files
        /\ touched' = r.touched
        /\ c_ret' = Ret("file.delete", key, r.value, NoLog)
        /\ UNCHANGED <<cache, pending, recency, path_key, deleted_keys, ml_task, now, notCache>>

\* FileCache.clear: every *.cache file of the directory is unlinked
file_clear ==
    /\ files' = EmptyDict
    /\ touched' = DOMAIN files
    /\ c_ret' = Ret("file.clear", NoKey, None, NoLog)
    /\ UNCHANGED <<cache, pending, recency, path_key, deleted_keys, ml_task, now, notCache>>

(***************************************************************************)
(* MultiLevelCache (utils/cache.py): memory_cache over file_cache.  Both   *)
(* tiers are attributes of the object and are also used directly.          *)
(***************************************************************************)
\* a slip: a file-tier hit returned without the write to the memory tier
PromoteNot(c, key, value, t) == [cache |-> c, log |-> NoLog]

\* await self.memory_cache.set(key, value)
Promote(c, key, value, t) == MemSet(c, key, value, NoTTL, memory_ttl, t)

\* MultiLevelCache.get
ml_get(key) ==
    LET m == MemGet(cache, key, now)
        f == FileGet(files, key, now)
    IN  IF m.value # None
        THEN /\ cache' = m.cache
             /\ c_ret' = Ret("get", key, m.value, NoLog)
             /\ touched' = {}
             /\ UNCHANGED <<files, deleted_keys, ml_task>>
        ELSE /\ files' = f.files
             /\ touched' = f.touched
             /\ c_ret' = Ret("get", key, f.value,
                             IF f.value \notin {None, "ValueError"}
                             THEN Promote(m.cache, key, f.value, now).log
                             ELSE IF f.deleted \/ m.log = Expired THEN Expired
                             ELSE NoLog)
             /\ cache' = IF f.value \notin {None, "ValueError"}
                         THEN Promote(m.cache, key, f.value, now).cache
                         ELSE m.cache
             /\ UNCHANGED <<deleted_keys, ml_task>>

\* MultiLevelCache.set: asyncio.gather of the two tiers' set
ml_set(key, value, ttl_memory, ttl_file) ==
    LET f == FileSet(files, key, value, ttl_file, file_ttl, now)
        m == MemSet(cache, key, value, ttl_memory, memory_ttl, now)
    IN  /\ cache' = m.cache
        /\ files' = f.files
        /\ touched' = f.touched
        /\ c_ret' = Ret("set", key, f.value, m.log)
        /\ deleted_keys' = deleted_keys \ {key}
        /\ UNCHANGED ml_task

\* MultiLevelCache.delete: memory_deleted or file_deleted
ml_delete(key) ==
    LET m == MemDelete(cache, key)
        f == FileDelete(files, key)
    IN  /\ cache' = m.cache
        /\ files' = f.files
        /\ touched' = f.touched
        /\ c_ret' = Ret("delete", key,
                        IF f.value = "ValueError" THEN f.value
                        ELSE Bool(m.deleted \/ f.deleted), NoLog)
        /\ deleted_keys' = deleted_keys \cup {key}
        /\ UNCHANGED ml_task

\* MultiLevelCache.clear
ml_clear ==
    /\ cache' = <<>>
    /\ files' = EmptyDict
    /\ touched' = DOMAIN files
    /\ c_ret' = Ret("clear", NoKey, None, NoLog)
    /\ UNCHANGED <<deleted_keys, ml_task>>

\* the keys of the two-tier runs: "a" and "../a", which share one cache file
MultiKeys == {Ka, Kc}

\* the history variables of the MemoryCache claims are not kept by these steps
MultiFrame == UNCHANGED <<pending, recency, path_key, now, notCache>>

MLGet == \E key \in MultiKeys : ml_get(key) /\ MultiFrame
MLSet == \E key \in MultiKeys, a \in SetArgs : ml_set(key, a[1], a[2], NoTTL) /\ MultiFrame
MLDelete == \E key \in MultiKeys : ml_delete(key) /\ MultiFrame
MLClear == ml_clear /\ MultiFrame
TierFileSet == \E key \in MultiKeys, a \in SetArgs : file_set(key, a[1], a[2])
TierMemGet ==
    \E key \in MultiKeys :
        LET r == MemGet(cache, key, now)
        IN  /\ cache' = r.cache
            /\ c_ret' = Ret("memory.get", key, r.value, r.log)
            /\ UNCHANGED <<files, touched, deleted_keys, ml_task>>
            /\ MultiFrame
TierFileGet == \E key \in MultiKeys : file_get(key)

InitMulti == now = Epoch /\ RLInit /\ CBInit /\ CacheInit /\ MonInit /\ BlkInit

NextMulti ==
    \/ MLGet \/ MLSet \/ MLDelete \/ MLClear
    \/ TierFileSet \/ TierMemGet \/ TierFileGet \/ CacheTick

SpecMulti == InitMulti /\ [][NextMulti]_vars

(***************************************************************************)
(* FileCache on a file system whose calls can fail.  fault names the call  *)
(* that raises during the operation: the stat behind cache_path.exists(),  *)
(* open(), json.load(), json.dump(), unlink() or glob().  A write that     *)
(* fails after open(.., 'w') leaves a file that is not JSON.               *)
(***************************************************************************)
NoFault == "none"
GetFaults == {NoFault, "stat", "open", "load", "unlink"}
SetFaults == {NoFault, "open", "dump"}
DeleteFaults == {NoFault, "stat", "unlink"}
ClearFaults == {NoFault, "glob", "unlink"}

\* what is left of a file whose json.dump failed
Corrupt == [value |-> "corrupt", created_at |-> NoTime, ttl |-> NoTTL]

\* logger.error(...) of the except branches
ErrorLog(fault) == <<"error", fault>>

\* FileCache.get: exists() is called before the try block
FileGetIO(f, key, t, fault) ==
    LET cache_path == get_cache_path(key)
    IN  IF cache_path = "ValueError"
        THEN [files |-> f, value |-> "ValueError", touched |-> {}, log |-> NoLog]
        ELSE IF fault = "stat"
        THEN [files |-> f, value |-> "OSError", touched |-> {}, log |-> NoLog]
        ELSE IF cache_path \notin DOMAIN f
        THEN [files |-> f, value |-> None, touched |-> {}, log |-> NoLog]
        ELSE IF fault = "open"
        THEN [files |-> f, value |-> None, touched |-> {}, log |-> ErrorLog(fault)]
        ELSE IF fault = "load" \/ f[cache_path] = Corrupt
        THEN [files |-> f, value |-> None, touched |-> {cache_path}, log |-> ErrorLog("load")]
        ELSE IF is_expired(f[cache_path], t)
        THEN IF fault = "unlink"
             THEN [files |-> f, value |-> None, touched |-> {cache_path},
                   log |-> ErrorLog(fault)]
             ELSE [files |-> DictDel(f, cache_path), value |-> None,
                   touched |-> {cache_path}, log |-> Expired]
        ELSE [files |-> f, value |-> f[cache_path].value, touched |-> {cache_path},
              log |-> NoLog]

\* FileCache.set: open and json.dump sit inside the try block
FileSetIO(f, key, value, ttl, dflt, t, fault) ==
    LET cache_path == get_cache_path(key)
        r == FileSet(f, key, value, ttl, dflt, t)
    IN  IF cache_path = "ValueError"
        THEN [files |-> f, value |-> "ValueError", touched |-> {}, log |-> NoLog]
        ELSE IF fault = "open"
        THEN [files |-> f, value |-> None, touched |-> {}, log |-> ErrorLog(fault)]
        ELSE IF fault = "dump"
        THEN [files |-> DictPut(f, cache_path, Corrupt), value |-> None,
              touched |-> {cache_path}, log |-> ErrorLog(fault)]
        ELSE [files |-> r.files, value |-> None, touched |-> r.touched, log |-> NoLog]

\* FileCache.delete: exists() is called outside the try block, unlink inside
FileDeleteIO(f, key, fault) ==
    LET cache_path == get_cache_path(key)
    IN  IF cache_path = "ValueError"
        THEN [files |-> f, value |-> "ValueError", touched |-> {}, log |-> NoLog]
        ELSE IF fault = "stat"
        THEN [files |-> f, value |-> "OSError", touched |-> {}, log |-> NoLog]
        ELSE IF cache_path \notin DOMAIN f
        THEN [files |-> f, value |-> "False", touched |-> {}, log |-> NoLog]
        ELSE IF fault = "unlink"
        THEN [files |-> f, value |-> "False", touched |-> {}, log |-> ErrorLog(fault)]
        ELSE [files |-> DictDel(f, cache_path), value |-> "True",
              touched |-> {cache_path}, log |-> NoLog]

\* the operation on key gets as far as the call that fault makes fail
GetReaches(f, key, t, fault) ==
    LET cache_path == get_cache_path(key)
    IN  CASE fault \in {"open", "load"} -> cache_path \in DOMAIN f
          [] fault = "unlink" -> /\ cache_path \in DOMAIN f
                                 /\ f[cache_path] # Corrupt
                                 /\ is_expired(f[cache_path], t)
          [] OTHER -> TRUE

DeleteReaches(f, key, fault) == fault = "unlink" => get_cache_path(key) \in DOMAIN f

IOFrame == UNCHANGED <<cache, pending, recency, path_key, now, notCache>>

file_get_io(key, fault) ==
    LET r == FileGetIO(files, key, now, fault)
    IN  /\ GetReaches(files, key, now, fault)
        /\ files' = r.files
        /\ touched' = r.touched
        /\ c_ret' = Ret("file.get", key, r.value, r.log)
        /\ UNCHANGED <<deleted_keys, ml_task>>
        /\ IOFrame

file_set_io(key, value, ttl, fault) ==
    LET r == FileSetIO(files, key, value, ttl, file_ttl, now, fault)
    IN  /\ files' = r.files
        /\ touched' = r.touched
        /\ c_ret' = Ret("file.set", key, r.value, r.log)
        /\ deleted_keys' = deleted_keys \ {key}
        /\ UNCHANGED ml_task
        /\ IOFrame

file_delete_io(key, fault) ==
    LET r == FileDeleteIO(files, key, fault)
    IN  /\ DeleteReaches(files, key, fault)
        /\ files' = r.files
        /\ touched' = r.touched
        /\ c_ret' = Ret("file.delete", key, r.value, r.log)
        /\ UNCHANGED <<deleted_keys, ml_task>>
        /\ IOFrame

\* FileCache.clear: glob and every unlink sit inside one try block, so the
\* first failure ends the loop and the files not yet reached stay
file_clear_io(fault) ==
    /\ \E kept \in SUBSET DOMAIN files :
          /\ fault = NoFault => kept = {}
          /\ fault = "glob" => kept = DOMAIN files
          /\ fault = "unlink" => kept # {}
          /\ files' = [p \in kept |-> files[p]]
          /\ touched' = DOMAIN files \ kept
    /\ c_ret' = Ret("file.clear", NoKey, None,
                    IF fault = NoFault THEN NoLog ELSE ErrorLog(fault))
    /\ UNCHANGED <<deleted_keys, ml_task>>
    /\ IOFrame

\* MultiLevelCache.get over the failing file system
ml_get_io(key, fault) ==
    LET m == MemGet(cache, key, now)
        f == FileGetIO(files, key, now, fault)
        hit == f.value \notin {None, "ValueError", "OSError"}
    IN  /\ IF m.value # None THEN fault = NoFault
                             ELSE GetReaches(files, key, now, fault)
        /\ IF m.value # None
           THEN /\ cache' = m.cache
                /\ c_ret' = Ret("get", key, m.value, NoLog)
                /\ touched' = {}
                /\ UNCHANGED files
           ELSE /\ files' = f.files
                /\ touched' = f.touched
                /\ c_ret' = Ret("get", key, f.value, f.log)
                /\ cache' = IF hit THEN Promote(m.cache, key, f.value, now).cache
                            ELSE m.cache
        /\ UNCHANGED <<deleted_keys, ml_task>>
        /\ MultiFrame

\* MultiLevelCache.delete over the failing file system: gather re-raises the
\* exception of FileCache.delete after MemoryCache.delete has run
ml_delete_io(key, fault) ==
    LET m == MemDelete(cache, key)
        f == FileDeleteIO(files, key, fault)
    IN  /\ DeleteReaches(files, key, fault)
        /\ cache' = m.cache
        /\ files' = f.files
        /\ touched' = f.touched
        /\ c_ret' = Ret("delete", key,
                        IF f.value \in {"ValueError", "OSError"} THEN f.value
                        ELSE Bool(m.deleted \/ f.value = "True"), f.log)
        /\ deleted_keys' = deleted_keys \cup {key}
        /\ UNCHANGED ml_task
        /\ MultiFrame

\* the keys of the runs on the failing file system
FileKeys == {Ka, Kb}

\* the key of the MultiLevelCache calls of these runs
TieredKeys == {Ka}

FGet == \E key \in FileKeys, fault \in GetFaults : file_get_io(key, fault)
FSet == \E key \in FileKeys, a \in SetArgs, fault \in SetFaults :
            file_set_io(key, a[1], a[2], fault)
FDelete == \E key \in FileKeys, fault \in DeleteFaults : file_delete_io(key, fault)
FClear == \E fault \in ClearFaults : file_clear_io(fault)
MLGetIO == \E key \in TieredKeys, fault \in GetFaults : ml_get_io(key, fault)
MLDeleteIO == \E key \in TieredKeys, fault \in DeleteFaults : ml_delete_io(key, fault)

InitFile == now = Epoch /\ RLInit /\ CBInit /\ CacheInit /\ MonInit /\ BlkInit

NextFile == FGet \/ FSet \/ FDelete \/ FClear \/ MLGetIO \/ MLDeleteIO \/ CacheTick

SpecFile == InitFile /\ [][NextFile]_vars

(***************************************************************************)
(* The path check on its own: a run takes one key string out of PathKeys   *)
(* and applies the FileCache operations to it.                             *)
(***************************************************************************)
MaxKeyLen == 3
PathAlphabet == {"a", "_", ".", "/"}

KeysOfLen(n) == [1..n -> PathAlphabet]
PathKeys == UNION {KeysOfLen(n) : n \in 0..MaxKeyLen}

PathSet == \E a \in SetArgs : file_set(path_key, a[1], a[2])
PathGet == file_get(path_key)
PathDelete == file_delete(path_key)

InitPath ==
    /\ now = Epoch /\ RLInit /\ CBInit /\ MonInit /\ BlkInit
    /\ cache = <<>> /\ files = EmptyDict /\ touched = {}
    /\ c_ret = Ret(None, NoKey, None, NoLog)
    /\ pending = [k \in CacheKeys |-> NoPending]
    /\ recency = <<>>
    /\ deleted_keys = {}
    /\ ml_task = [c \in Callers |-> NoTask]
    /\ path_key \in PathKeys

NextPath == PathSet \/ PathGet \/ PathDelete \/ file_clear \/ CacheTick

SpecPath == InitPath /\ [][NextPath]_vars

\* runs of MultiLevelCache set and get on one key with the TTLs the cache was
\* built with, over a clock long enough for both tiers to expire one after
\* the other; pending[k] keeps the value and the time of the last set(k)
StaleHorizon == 5

StaleClock == Epoch..(Epoch + StaleHorizon)

StaleKeys == {Ka}

StaleFrame == UNCHANGED <<recency, path_key, now, notCache>>

StaleSet ==
    \E key \in StaleKeys, a \in SetArgs :
        /\ ml_set(key, a[1], NoTTL, NoTTL)
        /\ pending' = [pending EXCEPT ![key] = [value |-> a[1], ttl |-> NoTTL,
                                                at |-> now, is |-> "set"]]
        /\ StaleFrame

StaleGet(key) == ml_get(key) /\ UNCHANGED pending /\ StaleFrame

StaleGetStep == \E key \in StaleKeys : StaleGet(key)

StaleTick == TickIn(StaleClock) /\ UNCHANGED <<cacheVars, notCache>>

InitStale == now = Epoch /\ RLInit /\ CBInit /\ CacheInit /\ MonInit /\ BlkInit

NextStale == StaleSet \/ StaleGetStep \/ StaleTick

SpecStale == InitStale /\ [][NextStale]_vars

(***************************************************************************)
(* MultiLevelCache called by several callers at once.  Each await of get,  *)
(* set and delete is a point where another caller's call runs; a tier's    *)
(* own method runs under that tier's lock and is one step.  asyncio.gather *)
(* starts its awaitables in the order given: the memory tier, then the     *)
(* file tier.                                                              *)
(***************************************************************************)
ConcKey == Ka
ConcValues == {"v1", "v2"}

\* the calls in flight after caller c took a step of a call of the given kind and
\* stands at mine: what the other callers' calls have seen go by
TasksAfter(c, kind, mine) ==
    [d \in Callers |->
        IF d = c THEN mine
        ELSE [ml_task[d] EXCEPT !.after_delete = @ /\ kind # "set",
                                !.only_sets = @ /\ kind = "set",
                                !.no_set = @ /\ kind # "set"]]

ConcFrame == UNCHANGED <<pending, recency, path_key, now, notCache>>

\* value = await self.memory_cache.get(key); a hit is returned
conc_get_memory(c, key) ==
    LET m == MemGet(cache, key, now)
    IN  /\ ml_task[c].op = "idle"
        /\ cache' = m.cache
        /\ IF m.value # None
           THEN /\ c_ret' = Ret("get", key, m.value, NoLog)
                /\ ml_task' = TasksAfter(c, "get", NoTask)
           ELSE /\ UNCHANGED c_ret
                /\ ml_task' = TasksAfter(c, "get",
                                  [NoTask EXCEPT !.op = "get", !.pc = "file",
                                                 !.after_delete = key \in deleted_keys])
        /\ UNCHANGED <<files, touched, deleted_keys>>
        /\ ConcFrame

\* value = await self.file_cache.get(key); a miss is returned
conc_get_file(c, key) ==
    LET f == FileGet(files, key, now)
    IN  /\ ml_task[c].op = "get" /\ ml_task[c].pc = "file"
        /\ files' = f.files
        /\ touched' = f.touched
        /\ IF f.value \in {None, "ValueError"}
           THEN /\ c_ret' = Ret("get", key, f.value, IF f.deleted THEN Expired ELSE NoLog)
                /\ ml_task' = TasksAfter(c, "get", NoTask)
           ELSE /\ UNCHANGED c_ret
                /\ ml_task' = TasksAfter(c, "get",
                                  [ml_task[c] EXCEPT !.pc = "promote", !.value = f.value])
        /\ UNCHANGED <<cache, deleted_keys>>
        /\ ConcFrame

\* await self.memory_cache.set(key, value); return value
conc_get_promote(c, key) ==
    LET m == Promote(cache, key, ml_task[c].value, now)
    IN  /\ ml_task[c].op = "get" /\ ml_task[c].pc = "promote"
        /\ cache' = m.cache
        /\ c_ret' = Ret("get", key, ml_task[c].value, m.log)
        /\ ml_task' = TasksAfter(c, "get", NoTask)
        /\ UNCHANGED <<files, touched, deleted_keys>>
        /\ ConcFrame

\* set: the first awaitable of the gather, self.memory_cache.set(key, value, ttl_memory)
conc_set_memory(c, key, value) ==
    LET m == MemSet(cache, key, value, NoTTL, memory_ttl, now)
    IN  /\ ml_task[c].op = "idle"
        /\ cache' = m.cache
        /\ ml_task' = TasksAfter(c, "set",
                          [NoTask EXCEPT !.op = "set", !.pc = "file", !.value = value,
                                         !.only_sets = TRUE])
        /\ deleted_keys' = deleted_keys \ {key}
        /\ UNCHANGED <<files, touched, c_ret>>
        /\ ConcFrame

\* set: the second awaitable, self.file_cache.set(key, value, ttl_file)
conc_set_file(c, key) ==
    LET f == FileSet(files, key, ml_task[c].value, NoTTL, file_ttl, now)
    IN  /\ ml_task[c].op = "set" /\ ml_task[c].pc = "file"
        /\ files' = f.files
        /\ touched' = f.touched
        /\ c_ret' = Ret("set", key, f.value, NoLog)
        /\ ml_task' = TasksAfter(c, "set", NoTask)
        /\ deleted_keys' = deleted_keys \ {key}
        /\ UNCHANGED cache
        /\ ConcFrame

\* delete: the first awaitable of the gather, self.memory_cache.delete(key)
conc_delete_memory(c, key) ==
    LET m == MemDelete(cache, key)
    IN  /\ ml_task[c].op = "idle"
        /\ cache' = m.cache
        /\ ml_task' = TasksAfter(c, "delete",
                          [NoTask EXCEPT !.op = "delete", !.pc = "file",
                                         !.value = Bool(m.deleted), !.no_set = TRUE])
        /\ UNCHANGED <<files, touched, c_ret, deleted_keys>>
        /\ ConcFrame

\* delete: the second awaitable, self.file_cache.delete(key); the key counts as
\* deleted when no set ran on it while the delete did
conc_delete_file(c, key) ==
    LET f == FileDelete(files, key)
    IN  /\ ml_task[c].op = "delete" /\ ml_task[c].pc = "file"
        /\ files' = f.files
        /\ touched' = f.touched
        /\ c_ret' = Ret("delete", key,
                        IF f.value = "ValueError" THEN f.value
                        ELSE Bool(ml_task[c].value = "True" \/ f.deleted), NoLog)
        /\ ml_task' = TasksAfter(c, "delete", NoTask)
        /\ deleted_keys' = IF ml_task[c].no_set THEN deleted_keys \cup {key} ELSE deleted_keys
        /\ UNCHANGED cache
        /\ ConcFrame

ConcGetMemory == \E c \in Callers : conc_get_memory(c, ConcKey)
ConcGetFile == \E c \in Callers : conc_get_file(c, ConcKey)
ConcGetPromote == \E c \in Callers : conc_get_promote(c, ConcKey)
ConcSetMemory == \E c \in Callers, value \in ConcValues : conc_set_memory(c, ConcKey, value)
ConcSetFile == \E c \in Callers : conc_set_file(c, ConcKey)
ConcDeleteMemory == \E c \in Callers : conc_delete_memory(c, ConcKey)
ConcDeleteFile == \E c \in Callers : conc_delete_file(c, ConcKey)

InitConc == now = Epoch /\ RLInit /\ CBInit /\ CacheInit /\ MonInit /\ BlkInit
NextConc ==
    \/ ConcGetMemory \/ ConcGetFile \/ ConcGetPromote
    \/ ConcSetMemory \/ ConcSetFile
    \/ ConcDeleteMemory \/ ConcDeleteFile
SpecConc == InitConc /\ [][NextConc]_vars

InitBlk == now = Epoch /\ RLInit /\ CBInit /\ CacheInit /\ MonInit /\ BlkInit

NextBlk == BlkCall \/ blocking_cleanup_old_entries \/ BlkTick

SpecBlk == InitBlk /\ [][NextBlk]_vars

InitAlert == now = Epoch /\ RLInit /\ CBInit /\ CacheInit /\ MonInit /\ BlkInit

NextAlert == MonRepeat \/ MonTick

SpecAlert == InitAlert /\ [][NextAlert]_vars

InitRL == now = Epoch /\ RLInit /\ CBInit /\ CacheInit /\ MonInit /\ BlkInit

NextRL == RLCall \/ RLTick

SpecRL == InitRL /\ [][NextRL]_vars

(***************************************************************************)
(* RateLimiter around the end of a burst sub-window: readings at which a   *)
(* call denied by the hour window opens a sub-window, a request is         *)
(* admitted at its end and another one two seconds later in the next.      *)
(***************************************************************************)
SpanOffsets == {0, BurstWindow + 1, MinuteWindow + 1, HourWindow, HourWindow + BurstWindow,
                HourWindow + BurstWindow + 2}
SpanClock == {Epoch + d : d \in SpanOffsets}
SpanTick == TickIn(SpanClock) /\ UNCHANGED <<rlVars, notRL>>

InitSpan == now = Epoch /\ RLInit /\ CBInit /\ CacheInit /\ MonInit /\ BlkInit
NextSpan == RLCall \/ SpanTick
SpecSpan == InitSpan /\ [][NextSpan]_vars

(***************************************************************************)
(* RateLimiter.is_allowed called by several callers at once.  The method   *)
(* takes no lock: a caller that passed the three checks can be overtaken   *)
(* by another caller's checks before it records its request.  The checks   *)
(* (with the clean-up and the roll-over of the burst counter before them)  *)
(* are one step, the recording is another.                                 *)
(***************************************************************************)
RaceIdentifiers == {"ip1"}
RaceClock == {Epoch, Epoch + BurstWindow, Epoch + BurstWindow + 1}

\* lines 39-62: clean-up, burst roll-over and the three checks; a denial returns
rl_check(c, identifier) ==
    LET current_time == now
        history == cleanup_old_entries(DictGet(request_history, identifier, <<>>),
                                       current_time)
        counter == EffectiveBurst(identifier, current_time)
        reset_time == IF BurstWindowElapsed(current_time,
                                            DictGet(burst_reset_time, identifier, 0))
                      THEN current_time
                      ELSE DictGet(burst_reset_time, identifier, 0)
        reason == IF BurstExceeded(counter) THEN "burst"
                  ELSE IF MinuteExceeded(CountWithin(history, current_time, MinuteWindow))
                  THEN "minute"
                  ELSE IF HourExceeded(CountWithin(history, current_time, HourWindow))
                  THEN "hour"
                  ELSE None
    IN  /\ rl_call[c].pc = "idle"
        /\ burst_reset_time' = DictPut(burst_reset_time, identifier, reset_time)
        /\ request_history' = DictPut(request_history, identifier, history)
        /\ burst_counter' = DictPut(burst_counter, identifier, counter)
        /\ IF reason = None
           THEN /\ rl_call' = [rl_call EXCEPT ![c] = [pc |-> "record",
                                                      identifier |-> identifier,
                                                      current_time |-> current_time]]
                /\ UNCHANGED <<rl_ret, burst_denials>>
           ELSE /\ rl_ret' = [identifier |-> identifier, allowed |-> FALSE,
                              reason |-> reason]
                /\ burst_denials' =
                      [burst_denials EXCEPT ![identifier] =
                          IF reason = "burst" /\ @ < 2 THEN @ + 1 ELSE @]
                /\ UNCHANGED rl_call
        /\ UNCHANGED <<now, notRL>>

\* lines 64-68: the request recorded, return True
rl_record(c) ==
    LET identifier == rl_call[c].identifier
        rec == RecordRequest(DictGet(request_history, identifier, <<>>),
                             DictGet(burst_counter, identifier, 0),
                             rl_call[c].current_time)
    IN  /\ rl_call[c].pc = "record"
        /\ request_history' = DictPut(request_history, identifier, rec.history)
        /\ burst_counter' = DictPut(burst_counter, identifier, rec.counter)
        /\ rl_ret' = [identifier |-> identifier, allowed |-> TRUE, reason |-> None]
        /\ burst_denials' = [burst_denials EXCEPT ![identifier] = 0]
        /\ rl_call' = [rl_call EXCEPT ![c] = NoCall]
        /\ UNCHANGED <<burst_reset_time, now, notRL>>

RaceCheck == \E c \in Callers, identifier \in RaceIdentifiers : rl_check(c, identifier)
RaceRecord == \E c \in Callers : rl_record(c)
RaceTick == TickIn(RaceClock) /\ UNCHANGED <<rlVars, notRL>>

InitRace == now = Epoch /\ RLInit /\ CBInit /\ CacheInit /\ MonInit /\ BlkInit
NextRace == RaceCheck \/ RaceRecord \/ RaceTick
SpecRace == InitRace /\ [][NextRace]_vars

InitCB == now = Epoch /\ RLInit /\ CBInit /\ CacheInit /\ MonInit /\ BlkInit

NextCB == CBBegin \/ CBFinish \/ reset \/ CBTick

SpecCB == InitCB /\ [][NextCB]_vars

(***************************************************************************)
(* CircuitBreaker recovery.  The wrapped operation can fail or raise up to *)
(* the reading HealthyFrom and returns normally after it; the clock keeps  *)
(* advancing to the last reading, callers keep calling and every call      *)
(* that invoked the operation finishes.  No reset() is made.               *)
(***************************************************************************)
HealthyFrom == Epoch + CBHorizon - timeout

LiveFinish(c) ==
    \E outcome \in Outcomes :
        /\ outcome # "ok" => now <= HealthyFrom
        /\ call_finish(c, outcome)

LiveFinishStep == \E c \in Callers : LiveFinish(c)

\* time keeps advancing, calls keep arriving, an invoked operation returns
LiveFairness ==
    /\ WF_vars(CBTick)
    /\ WF_vars(CBBegin)
    /\ \A c \in Callers : WF_vars(LiveFinish(c))

InitLive == now = Epoch /\ RLInit /\ CBInit /\ CacheInit /\ MonInit /\ BlkInit
NextLive == CBBegin \/ LiveFinishStep \/ CBTick
SpecLive == InitLive /\ [][NextLive]_vars /\ LiveFairness

InitMem == now = Epoch /\ RLInit /\ CBInit /\ CacheInit /\ MonInit /\ BlkInit

NextMem == MemGetStep \/ MemSetStep \/ MemDeleteStep \/ memory_clear \/ CacheTick

SpecMem == InitMem /\ [][NextMem]_vars

InitMon == now = Epoch /\ RLInit /\ CBInit /\ CacheInit /\ MonInit /\ BlkInit

NextMon == MonEvent \/ MonTick

SpecMon == InitMon /\ [][NextMon]_vars

(***************************************************************************)
(* RateLimiter: the claims.  The counts below are written from the         *)
(* limiter's stored state, independently of the operators is_allowed uses. *)
(***************************************************************************)
StoredHistory(identifier) == DictGet(request_history, identifier, <<>>)
StoredBurst(identifier) == DictGet(burst_counter, identifier, 0)
StoredBurstReset(identifier) == DictGet(burst_reset_time, identifier, 0)

\* number of recorded timestamps t with now - window <= t
RecordedWithin(identifier, window) ==
    Cardinality({i \in 1..Len(StoredHistory(identifier)) :
                    StoredHistory(identifier)[i] >= now - window})

\* the burst count of the current 10 s sub-window: the stored counter, or 0 once
\* more than 10 s have passed since the sub-window began
BurstCountNow(identifier) ==
    IF now > StoredBurstReset(identifier) + BurstWindow THEN 0
    ELSE StoredBurst(identifier)

Admitted(identifier) ==
    /\ rl_ret'.allowed
    /\ request_history'[identifier] =
          Append(SelectSeq(StoredHistory(identifier),
                           LAMBDA t : t >= now - HourWindow), now)

\* C1 as stated: admitted iff the STORED burst counter, the minute count and the
\* hour count are below their limits; an admitted request is appended and the
\* burst counter incremented (from its stored value or from the rolled-over 0).
C1_AsStated ==
    [][\A identifier \in Identifiers : is_allowed(identifier) =>
        /\ rl_ret'.allowed <=>
              /\ StoredBurst(identifier) < burst_limit
              /\ RecordedWithin(identifier, MinuteWindow) < requests_per_minute
              /\ RecordedWithin(identifier, HourWindow) < requests_per_hour
        /\ rl_ret'.allowed =>
              /\ Admitted(identifier)
              /\ burst_counter'[identifier] \in
                    {StoredBurst(identifier) + 1, BurstCountNow(identifier) + 1}]_vars

\* C1 (amended): every is_allowed call admits the request iff the burst count of
\* the current 10 s sub-window (the stored counter, taken as 0 when more than 10 s
\* have passed since burst_reset_time), the number of timestamps recorded within
\* the last 60 s and the number within the last 3600 s are all below their
\* limits; an admitted request is appended to the history and that burst count
\* is incremented before the call returns, a denied one records nothing.
C1_AdmittedIffBelowLimits ==
    [][\A identifier \in Identifiers : is_allowed(identifier) =>
        /\ rl_ret'.identifier = identifier
        /\ rl_ret'.allowed <=>
              /\ BurstCountNow(identifier) < burst_limit
              /\ RecordedWithin(identifier, MinuteWindow) < requests_per_minute
              /\ RecordedWithin(identifier, HourWindow) < requests_per_hour
        /\ rl_ret'.allowed =>
              /\ Admitted(identifier)
              /\ burst_counter'[identifier] = BurstCountNow(identifier) + 1
        /\ ~rl_ret'.allowed =>
              /\ Len(request_history'[identifier]) <= Len(StoredHistory(identifier))
              /\ burst_counter'[identifier] = BurstCountNow(identifier)]_vars

\* C1 witness: a request denied by the minute window alone (its burst count is
\* below the limit) while another identifier's burst counter sits at the limit.
C1_Witness ==
    /\ rl_ret.reason = "minute"
    /\ burst_counter[rl_ret.identifier] < burst_limit
    /\ \E other \in DOMAIN burst_counter : burst_counter[other] = burst_limit

WindowsOf == {"burst", "minute", "hour"}

CountOf(identifier, w) ==
    CASE w = "burst" -> BurstCountNow(identifier)
      [] w = "minute" -> RecordedWithin(identifier, MinuteWindow)
      [] w = "hour" -> RecordedWithin(identifier, HourWindow)

LimitOf(w) ==
    CASE w = "burst" -> burst_limit
      [] w = "minute" -> requests_per_minute
      [] w = "hour" -> requests_per_hour

\* C10 as stated: denied iff some window's count, the candidate request
\* included, would meet or exceed the window's limit.
C10_AsStated ==
    [][\A identifier \in Identifiers : is_allowed(identifier) =>
        (~rl_ret'.allowed <=>
            \E w \in WindowsOf : CountOf(identifier, w) + 1 >= LimitOf(w))]_vars

\* C10 (amended): is_allowed returns false iff some window's count before the
\* candidate request is included already meets or exceeds that window's limit
\* (so: iff the count with the candidate included would exceed it), and the
\* reason names the first such window in the order burst, minute, hour; every
\* admitted request is recorded.
C10_DeniedIffSomeWindowFull ==
    [][\A identifier \in Identifiers : is_allowed(identifier) =>
        /\ ~rl_ret'.allowed <=>
              \E w \in WindowsOf : CountOf(identifier, w) >= LimitOf(w)
        /\ rl_ret'.reason \in WindowsOf =>
              CountOf(identifier, rl_ret'.reason) >= LimitOf(rl_ret'.reason)
        /\ rl_ret'.allowed =>
              /\ Len(request_history'[identifier]) > 0
              /\ request_history'[identifier][Len(request_history'[identifier])] = now
              /\ RecordedWithin(identifier, HourWindow) + 1
                    = Len(request_history'[identifier])]_vars

\* C10 witness: a request admitted with the minute count one below its limit
\* (the case the two readings differ on), then a denial by the hour window.
C10_Witness ==
    /\ rl_ret.reason = "hour"
    /\ Len(request_history[rl_ret.identifier]) = requests_per_hour
    /\ \E i \in 1..Len(request_history[rl_ret.identifier]) :
          Cardinality({j \in 1..i : request_history[rl_ret.identifier][j]
                                      >= request_history[rl_ret.identifier][i] - MinuteWindow})
             = requests_per_minute

\* the requests admitted since the burst sub-window in progress began
AdmittedInSubWindow(identifier) ==
    Cardinality({i \in 1..Len(StoredHistory(identifier)) :
                    StoredHistory(identifier)[i] >= StoredBurstReset(identifier)})

\* the call opens a new burst sub-window: a new identifier, or one whose
\* sub-window began more than 10 s ago
OpensSubWindow(identifier) ==
    \/ identifier \notin DOMAIN burst_reset_time
    \/ now - StoredBurstReset(identifier) > BurstWindow

\* neither the minute nor the hour window is full
SlowWindowsOpen(identifier) ==
    /\ RecordedWithin(identifier, MinuteWindow) < requests_per_minute
    /\ RecordedWithin(identifier, HourWindow) < requests_per_hour

AdmittedInSpanFrom(identifier, i) ==
    Cardinality({j \in i..Len(StoredHistory(identifier)) :
                    StoredHistory(identifier)[j] - StoredHistory(identifier)[i] < BurstWindow})

C27_MutualExclusion ==
    /\ \A identifier \in Identifiers :
          /\ StoredBurst(identifier) <= burst_limit
          /\ \A t \in RaceClock :
                Cardinality({i \in 1..Len(StoredHistory(identifier)) :
                                StoredHistory(identifier)[i] = t}) <= burst_limit
          /\ Len(StoredHistory(identifier)) <= requests_per_hour

\* the identifiers the limiter holds an entry for
Tracked(history, counter, reset_time) ==
    DOMAIN history \cup DOMAIN counter \cup DOMAIN reset_time

\* the identifier has made no call for more than the longest window: a call made
\* more than 10 s after burst_reset_time moves burst_reset_time to its own time
InactiveForLongest(other) ==
    now - StoredBurstReset(other) > HourWindow + BurstWindow

\* C29: once a call has run its clean-up, the limiter's maps hold no identifier
\* that has been inactive for longer than the longest window (3600 s).
C29_StaleIdentifiersPurged ==
    [][\A identifier \in Identifiers :
          is_allowed(identifier) =>
              \A other \in Tracked(request_history', burst_counter', burst_reset_time') :
                  (other # identifier /\ other \in DOMAIN burst_reset_time) =>
                      ~InactiveForLongest(other)]_vars

(***************************************************************************)
(* CircuitBreaker: the claims.                                             *)
(***************************************************************************)
Running(c) == cb_call[c].pc = "running"

\* C2: with failure_threshold = N, once N failures of the expected kind have
\* completed in a row the state is OPEN; and a call made while the state is OPEN
\* and less than timeout has elapsed since last_failure_time raises
\* CircuitBreakerError without invoking the operation, leaving state,
\* failure_count and last_failure_time as they were.
C2_OpensAndFailsFast ==
    [][/\ (cb_ret'.did = "expected" /\ consecutive' >= failure_threshold)
              => state' = OPEN
       /\ \A c \in Callers :
            (/\ state = OPEN
             /\ last_failure_time # NoTime
             /\ now - last_failure_time < timeout
             /\ call_begin(c))
            => /\ cb_ret'.did = "CircuitBreakerError"
               /\ ~Running(c)'
               /\ cb_call' = cb_call
               /\ state' = state
               /\ failure_count' = failure_count
               /\ last_failure_time' = last_failure_time]_vars

\* C2 witness: a fresh breaker took exactly N failures in a row, is OPEN, and
\* the next call was rejected.
C2_Witness ==
    /\ cb_ret.did = "CircuitBreakerError"
    /\ state = OPEN
    /\ consecutive = failure_threshold
    /\ failure_count = failure_threshold
    /\ now - last_failure_time < timeout

\* C3: when the state is OPEN and now - last_failure_time >= timeout, the next
\* call sets the state to HALF_OPEN before it invokes the operation; and when
\* the invocation of a call that entered HALF_OPEN succeeds, the state becomes
\* CLOSED and failure_count is 0.
C3_HalfOpenThenClosed ==
    [][\A c \in Callers :
         /\ (/\ state = OPEN
             /\ last_failure_time # NoTime
             /\ now - last_failure_time >= timeout
             /\ call_begin(c))
            => /\ state' = HALF_OPEN
               /\ cb_ret' = [caller |-> c, did |-> "invoked", entered |-> HALF_OPEN]
               /\ cb_call'[c] = [pc |-> "running", entered |-> HALF_OPEN]
         /\ (cb_call[c].entered = HALF_OPEN /\ call_finish(c, "ok"))
            => /\ state' = CLOSED
               /\ failure_count' = 0]_vars

\* C3 witness: the trial that entered HALF_OPEN, strictly later than the
\* timeout, has succeeded and the breaker is CLOSED again.
C3_Witness ==
    /\ cb_ret.did = "ok"
    /\ cb_ret.entered = HALF_OPEN
    /\ state = CLOSED
    /\ failure_count = 0
    /\ now - last_failure_time > timeout

\* C4: while the breaker is HALF_OPEN at most one caller has the wrapped
\* operation in flight as a trial: no second caller invokes it between the
\* move to HALF_OPEN and the trial's resolution.
C4_SingleTrial ==
    Cardinality({c \in Callers : Running(c) /\ cb_call[c].entered = HALF_OPEN}) <= 1

\* C12: a failure of the expected kind while the breaker is HALF_OPEN puts it
\* back to OPEN with last_failure_time the time of that failure; from then on,
\* until timeout has passed since that failure (and while no success or reset
\* closes the breaker), every call raises CircuitBreakerError without invoking
\* the operation.
C12_TrialFailureReopens ==
    [][\A c \in Callers :
         /\ (state = HALF_OPEN /\ call_finish(c, "expected"))
            => /\ state' = OPEN
               /\ last_failure_time' = now
               /\ failure_count' = failure_count + 1
         /\ (/\ reopened_at # NoTime
             /\ now - reopened_at < timeout
             /\ call_begin(c))
            => /\ cb_ret'.did = "CircuitBreakerError"
               /\ cb_call' = cb_call
               /\ state' = OPEN /\ state = OPEN]_vars

\* a call was rejected after the HALF_OPEN trial failed, one second before the
\* timeout counted from that failure is over
C12_Witness ==
    /\ cb_ret.did = "CircuitBreakerError"
    /\ reopened_at # NoTime
    /\ last_failure_time = reopened_at
    /\ now = reopened_at + timeout - 1
    /\ failure_count = failure_threshold + 1

\* C13 as the specification states it: a call whose operation raises an error
\* that does not match expected_exception leaves state, failure_count and
\* last_failure_time as they were before the call, whatever the state the call
\* found (no other call or reset acting in between).
C13_UnexpectedLeavesBreaker ==
    [][\A c \in Callers :
         (/\ cb_ret.caller = c /\ cb_ret.did = "invoked"
          /\ call_finish(c, "unexpected"))
         => /\ state' = cb_before[c]
            /\ failure_count' = failure_count
            /\ last_failure_time' = last_failure_time]_vars

\* C22: the breaker goes from OPEN to CLOSED only by reset() (a trial passes
\* through HALF_OPEN first); a call that found the breaker CLOSED and returns
\* successfully when the breaker is OPEN leaves it OPEN and leaves
\* failure_count as it is.
C22_LateSuccessKeepsOpen ==
    [][/\ (state = OPEN /\ state' = CLOSED) => cb_ret'.did = "reset"
       /\ \A c \in Callers :
             (call_finish(c, "ok") /\ cb_before[c] = CLOSED /\ state = OPEN) =>
                 state' = OPEN /\ failure_count' = failure_count]_vars

\* C26: in every state reached by calls (successes, expected failures, unexpected
\* errors, rejections) and reset(), a CLOSED breaker has failure_count below
\* failure_threshold, and an OPEN or HALF_OPEN breaker has failure_count at or
\* above failure_threshold and a last_failure_time that is set.
C26_StateAgreesWithCount ==
    /\ failure_threshold >= 1
    /\ state \in {CLOSED, OPEN, HALF_OPEN}
    /\ state = CLOSED => failure_count < failure_threshold
    /\ state \in {OPEN, HALF_OPEN} =>
          /\ failure_count >= failure_threshold
          /\ last_failure_time # NoTime

\* a HALF_OPEN breaker whose trials have failed before: the count is past the threshold
C26_Witness ==
    /\ state = HALF_OPEN
    /\ failure_count > failure_threshold
    /\ last_failure_time # NoTime
    /\ cb_ret.did # "reset"

\* C28: when the wrapped operation returns normally from some time on, the clock
\* keeps advancing and calls keep arriving, a breaker that is OPEN or HALF_OPEN
\* is eventually CLOSED with failure_count 0: it stays neither OPEN nor HALF_OPEN
\* forever.
C28_Recovers ==
    (state \in {OPEN, HALF_OPEN}) ~> (state = CLOSED /\ failure_count = 0)

\* the breaker closed by the success of a HALF_OPEN trial made once the operation
\* had recovered
C28_Witness ==
    /\ state = CLOSED
    /\ failure_count = 0
    /\ cb_ret.did = "ok"
    /\ cb_ret.entered = HALF_OPEN
    /\ last_failure_time # NoTime
    /\ now > HealthyFrom

(***************************************************************************)
(* MemoryCache: the claims.  pending[k] is the last set of k that no       *)
(* operation on k has followed; recency lists the held keys from the least *)
(* to the most recently used.                                              *)
(***************************************************************************)
HeldEntry(k) == cache[IndexOf(cache, k)]

\* now - created_at > ttl, for an entry with a ttl
PastTTL(created_at, ttl) == ttl # NoTTL /\ now - created_at > ttl

\* C5 as the specification states it: a get(k) that follows set(k, v, ttl) with
\* no operation on k in between returns v while the entry is not expired, and
\* misses and removes the entry once it is.
C5_AsStated ==
    [][\A k \in CacheKeys :
          (memory_get(k) /\ pending[k].is \in {"set", "evicted"}) =>
              IF PastTTL(pending[k].at, pending[k].ttl)
              THEN c_ret'.value = None /\ k \notin KeysOf(cache')
              ELSE c_ret'.value = pending[k].value]_vars

\* C5: a get(k) that follows set(k, v, ttl) with no operation on k in between,
\* and no eviction of k in between, returns v if now - created_at <= ttl and
\* otherwise misses and removes the entry; any get(k) of a held entry misses
\* exactly when now - created_at > ttl.
C5_GetAfterSet ==
    [][\A k \in CacheKeys :
          memory_get(k) =>
              /\ pending[k].is = "set" =>
                     IF PastTTL(pending[k].at, pending[k].ttl)
                     THEN c_ret'.value = None /\ k \notin KeysOf(cache')
                     ELSE c_ret'.value = pending[k].value
              /\ k \in KeysOf(cache) =>
                     IF PastTTL(HeldEntry(k).created_at, HeldEntry(k).ttl)
                     THEN c_ret'.value = None /\ k \notin KeysOf(cache')
                     ELSE c_ret'.value = HeldEntry(k).value /\ k \in KeysOf(cache')
              /\ pending[k].is = "evicted" => c_ret'.value = None]_vars

\* a get has just missed on an expired entry and removed it
C5_Witness ==
    /\ c_ret.op = "memory.get" /\ c_ret.value = None /\ c_ret.log = Expired
    /\ c_ret.key \notin KeysOf(cache)

\* C6 as the specification states it: a set of a new key into a full cache
\* removes exactly one entry, the least recently used one (by access, not by
\* insertion); any other set removes nothing.
C6_EvictsLeastRecentlyUsed ==
    [][\A k \in CacheKeys : \A a \in SetArgs :
          memory_set(k, a[1], a[2]) =>
              IF k \notin KeysOf(cache) /\ Len(cache) = max_size
              THEN KeysOf(cache) \ KeysOf(cache') = {Head(recency)}
              ELSE KeysOf(cache) \subseteq KeysOf(cache')]_vars

\* C14: after any sequence of get, set, delete and clear the cache map holds at
\* most max_size entries (one per key).
C14_Bounded ==
    /\ Len(cache) <= max_size
    /\ Cardinality(KeysOf(cache)) = Len(cache)

\* a set of a new key into a full cache has evicted an entry: the cache is
\* still at max_size
C14_Witness ==
    /\ c_ret.op = "memory.set" /\ c_ret.log # NoLog
    /\ c_ret.key \in KeysOf(cache)
    /\ Len(cache) = max_size

(***************************************************************************)
(* MultiLevelCache and FileCache: the claims.                              *)
(***************************************************************************)
FreshInMemory(k) ==
    k \in KeysOf(cache) /\ ~PastTTL(HeldEntry(k).created_at, HeldEntry(k).ttl)

FileOf(k) == files[get_cache_path(k)]

FreshInFile(k) ==
    /\ get_cache_path(k) \in DOMAIN files
    /\ ~PastTTL(FileOf(k).created_at, FileOf(k).ttl)

\* C7: MultiLevelCache.get(k) for a key that only the file tier holds returns
\* the stored value and writes it into the memory tier, so that a following
\* MemoryCache.get(k) returns it; a hit in the memory tier does not consult the
\* file tier; and a get never writes to the file tier.
C7_GetPromotes ==
    [][\A k \in MultiKeys :
          /\ (ml_get(k) /\ MultiFrame) =>
                /\ FreshInMemory(k) =>
                       /\ c_ret'.value = HeldEntry(k).value
                       /\ touched' = {} /\ files' = files
                /\ (~FreshInMemory(k) /\ FreshInFile(k)) =>
                       /\ c_ret'.value = FileOf(k).value
                       /\ files' = files
                       /\ \E i \in 1..Len(cache') :
                              /\ cache'[i].key = k
                              /\ cache'[i].value = FileOf(k).value
                              /\ cache'[i].created_at = now
                /\ DOMAIN files' \subseteq DOMAIN files
                /\ \A p \in DOMAIN files' : files'[p] = files[p]
          /\ ( /\ c_ret.op = "get" /\ c_ret.key = k /\ c_ret.value # None
               /\ c_ret'.op = "memory.get" /\ c_ret'.key = k
               /\ FreshInMemory(k)) =>
                c_ret'.value = c_ret.value]_vars

\* a get has just been served by the file tier, and the memory tier holds the
\* value it returned
C7_Witness ==
    /\ c_ret.op = "get" /\ c_ret.value # None /\ touched # {}
    /\ \E i \in 1..Len(cache) :
           cache[i].key = c_ret.key /\ cache[i].value = c_ret.value

\* a get of k through the MultiLevelCache or through one of its tiers
GetOf(k) == (ml_get(k) /\ MultiFrame) \/ file_get(k) \/ (TierMemGet /\ c_ret'.key = k)

\* C15: MultiLevelCache.delete(k) removes k from both tiers and returns true
\* exactly when at least one tier held k; from then on, until the next set(k),
\* a get(k) on the MultiLevelCache or on either tier is a miss; and clear()
\* leaves both tiers empty.
C15_DeleteThenMiss ==
    [][\A k \in MultiKeys :
          /\ (ml_delete(k) /\ MultiFrame) =>
                /\ k \notin KeysOf(cache')
                /\ get_cache_path(k) \notin DOMAIN files'
                /\ c_ret'.value = Bool(k \in KeysOf(cache)
                                        \/ get_cache_path(k) \in DOMAIN files)
          /\ (k \in deleted_keys /\ GetOf(k)) => c_ret'.value = None
          /\ (ml_clear /\ MultiFrame) => cache' = <<>> /\ DOMAIN files' = {}]_vars

\* the part of C15 that does not look past the delete or the clear itself
C15_DeleteAndClear ==
    [][\A k \in MultiKeys :
          /\ (ml_delete(k) /\ MultiFrame) =>
                /\ k \notin KeysOf(cache')
                /\ get_cache_path(k) \notin DOMAIN files'
                /\ c_ret'.value = Bool(k \in KeysOf(cache)
                                        \/ get_cache_path(k) \in DOMAIN files)
          /\ (ml_clear /\ MultiFrame) => cache' = <<>> /\ DOMAIN files' = {}]_vars

\* an operation of the MultiLevelCache or of its file tier on the key k
OperationOn(k) ==
    \/ (ml_get(k) \/ ml_delete(k)) /\ MultiFrame
    \/ \E a \in SetArgs : (ml_set(k, a[1], a[2], NoTTL) /\ MultiFrame) \/ file_set(k, a[1], a[2])
    \/ file_get(k)

\* C21: for distinct keys k1 and k2, no operation on k1 reads, overwrites or
\* deletes the entry of k2: what FileCache.get(k2) returns is the same before
\* and after the operation, so a get returns only what a set of its own key
\* stored.
C21_KeyIsolation ==
    [][\A k1 \in MultiKeys, k2 \in MultiKeys :
          (k1 # k2 /\ OperationOn(k1)) =>
              FileGet(files', k2, now).value = FileGet(files, k2, now).value]_vars

\* what a caller sees when an operation raises instead of returning
Exceptions == {"ValueError", "OSError"}

\* an expired entry that FileCache.get can read
ExpiredInFile(k) ==
    /\ get_cache_path(k) \in DOMAIN files
    /\ FileOf(k) # Corrupt
    /\ PastTTL(FileOf(k).created_at, FileOf(k).ttl)

\* C16: whichever file-system call fails during FileCache.get, set, delete or
\* clear, get returns None and set, delete and clear return normally, and no
\* exception reaches the caller of FileCache or of MultiLevelCache; a get on an
\* expired entry deletes the backing file and returns a miss.
C16_FailuresAreMisses ==
    [][\A key \in FileKeys :
          /\ \A fault \in GetFaults \ {NoFault} :
                /\ file_get_io(key, fault) => c_ret'.value = None
                /\ (key \in TieredKeys /\ ml_get_io(key, fault)) => c_ret'.value = None
          /\ \A a \in SetArgs, fault \in SetFaults :
                file_set_io(key, a[1], a[2], fault) => c_ret'.value = None
          /\ \A fault \in DeleteFaults :
                /\ file_delete_io(key, fault) => c_ret'.value \in {"True", "False"}
                /\ (key \in TieredKeys /\ ml_delete_io(key, fault)) =>
                       c_ret'.value \in {"True", "False"}
          /\ \A fault \in ClearFaults :
                file_clear_io(fault) => c_ret'.value = None
          /\ (file_get_io(key, NoFault) /\ ExpiredInFile(key)) =>
                /\ c_ret'.value = None
                /\ get_cache_path(key) \notin DOMAIN files']_vars

\* the same for the calls made inside the try blocks: open, json.load,
\* json.dump, unlink and glob
C16_CaughtFailures ==
    [][\A key \in FileKeys :
          /\ \A fault \in GetFaults \ {NoFault, "stat"} :
                /\ file_get_io(key, fault) => c_ret'.value = None
                /\ (key \in TieredKeys /\ ml_get_io(key, fault)) => c_ret'.value = None
          /\ \A a \in SetArgs, fault \in SetFaults :
                file_set_io(key, a[1], a[2], fault) => c_ret'.value = None
          /\ \A fault \in DeleteFaults \ {"stat"} :
                /\ file_delete_io(key, fault) => c_ret'.value \in {"True", "False"}
                /\ (key \in TieredKeys /\ ml_delete_io(key, fault)) =>
                       c_ret'.value \in {"True", "False"}
          /\ \A fault \in ClearFaults :
                file_clear_io(fault) => c_ret'.value = None
          /\ (file_get_io(key, NoFault) /\ ExpiredInFile(key)) =>
                /\ c_ret'.value = None
                /\ get_cache_path(key) \notin DOMAIN files']_vars

\* path names a file of the directory cache_dir itself
DirectlyInside(path) ==
    /\ Len(path) = Len(cache_dir) + 1
    /\ SubSeq(path, 1, Len(cache_dir)) = cache_dir
    /\ path[Len(path)] \notin {<<>>, <<".">>, <<".", ".">>}

\* C8: for any key string, with separators, ".." or an absolute prefix in it,
\* every file that FileCache.get, set or delete reads, writes or removes, and
\* every file the cache holds, lies directly inside cache_dir.
C8_PathsInsideCacheDir ==
    \A path \in touched \cup DOMAIN files : DirectlyInside(path)

\* a set with a key of "/" and "." characters has written its file
C8_Witness ==
    /\ c_ret.op = "file.set" /\ touched # {}
    /\ \E i \in 1..Len(path_key) : path_key[i] = "/"
    /\ \E i \in 1..Len(path_key) : path_key[i] = "."

\* max(M, F)
LongestTTL == IF memory_ttl >= file_ttl THEN memory_ttl ELSE file_ttl

\* C23: a MultiLevelCache.get(k) that returns a value does so at most
\* max(memory_ttl, file_ttl) seconds after the most recent set(k), whether the
\* memory tier or the file tier serves it and whether or not the value was
\* promoted in between.
C23_StalenessBound ==
    [][\A k \in StaleKeys :
          (StaleGet(k) /\ c_ret'.value # None) =>
              /\ pending[k].is = "set"
              /\ now - pending[k].at <= LongestTTL]_vars

\* a get of the caller returns, the key having been deleted before the get began and
\* not set since
ReturnsAfterDelete(c) ==
    \/ conc_get_memory(c, ConcKey) /\ ConcKey \in deleted_keys /\ ml_task'[c].op = "idle"
    \/ (conc_get_file(c, ConcKey) \/ conc_get_promote(c, ConcKey))
           /\ ml_task[c].after_delete /\ ml_task'[c].op = "idle"

\* a set of the caller completes, only sets having run beside it, and no call is
\* left in flight
SetsCompleted(c) ==
    /\ conc_set_file(c, ConcKey)
    /\ ml_task[c].only_sets
    /\ \A d \in Callers : ml_task'[d].op = "idle"

\* C24: with callers interleaved at the awaits, a get that begins after a completed
\* delete of the key with no set since returns nothing, and once concurrent sets
\* of the key have all completed the two tiers hold the same value for it.
C24_ConcurrentCallers ==
    [][\A c \in Callers :
          /\ ReturnsAfterDelete(c) => c_ret'.value = None
          /\ SetsCompleted(c) =>
                MemGet(cache', ConcKey, now).value = FileGet(files', ConcKey, now).value]_vars

(***************************************************************************)
(* SecurityEventMonitor: the claims.  The counts are taken from seen, the  *)
(* timestamps of all the events processed, not from the monitor's lists.   *)
(***************************************************************************)
\* the alert records among the records a call logged
AlertsIn(records) ==
    Cardinality({i \in 1..Len(records) :
                    records[i].details.alert_type = "threshold_exceeded"})

\* events of the pair at most window seconds old, the one arriving now included
InWindowNow(event_type, identifier) ==
    1 + Cardinality({i \in 1..Len(seen[<<event_type, identifier>>]) :
            seen[<<event_type, identifier>>][i] >= now - alert_thresholds[event_type].window})

\* C9: with a threshold {count N, window W}, an event that is the k-th of its
\* type and identifier within W seconds logs no alert for k < N and exactly
\* one alert for k = N; an event more than W seconds after the one before it
\* logs no alert.
C9_AlertAtNth ==
    [][\A event_type \in Configured, user_id \in UserIds, ip_address \in IpAddresses :
          process_security_event(event_type, user_id, ip_address) =>
              LET identifier == IdentifierOf(user_id, ip_address)
                  N == alert_thresholds[event_type].count
                  W == alert_thresholds[event_type].window
                  before == seen[<<event_type, identifier>>]
              IN  /\ InWindowNow(event_type, identifier) < N => AlertsIn(sec_log') = 0
                  /\ InWindowNow(event_type, identifier) = N => AlertsIn(sec_log') = 1
                  /\ (before = <<>> \/ now - before[Len(before)] > W) =>
                         AlertsIn(sec_log') = 0]_vars

\* the third injection attempt of an identifier within 300 s has logged one alert
C9_Witness ==
    \E identifier \in MonIdentifiers :
        /\ Len(seen[<<"injection_attempt", identifier>>]) = 3
        /\ seen[<<"injection_attempt", identifier>>][3] = now
        /\ seen[<<"injection_attempt", identifier>>][1] = now - 300
        /\ Len(sec_log) = 2 /\ sec_log[1].event_type = "injection_attempt"
        /\ AlertsIn(sec_log) = 1
        /\ sec_log[2].details.identifier = identifier

\* the records of sec that are not alerts
EventRecords(sec) == {i \in 1..Len(sec) : sec[i].details.alert_type = None}

\* C19: every process_security_event call logs exactly one record of the
\* event, of whatever type, with the event's type, user and address; for an
\* event type with no configured threshold it logs no alert and keeps no
\* counter, whatever arrived before.
C19_OneRecordPerEvent ==
    [][\A event_type \in EventTypes, user_id \in UserIds, ip_address \in IpAddresses :
          process_security_event(event_type, user_id, ip_address) =>
              /\ Cardinality(EventRecords(sec_log')) = 1
              /\ \A i \in EventRecords(sec_log') :
                     /\ sec_log'[i].event_type = event_type
                     /\ sec_log'[i].user_id = user_id
                     /\ sec_log'[i].ip_address = ip_address
              /\ event_type \notin Configured =>
                     /\ AlertsIn(sec_log') = 0
                     /\ event_counts' = event_counts
                     /\ event_type \notin DOMAIN event_counts']_vars

\* an event of a type without a threshold has been logged after an alert was
\* already due for the same address
C19_Witness ==
    /\ Len(sec_log) = 1
    /\ sec_log[1].event_type \notin Configured
    /\ sec_log[1].ip_address # None
    /\ Len(seen[<<"injection_attempt", sec_log[1].ip_address>>]) = MaxEvents

\* the timestamps processed for the pair that are at most window seconds old
\* after the event arriving now
RecordedInWindow(event_type, identifier) ==
    SelectSeq(Append(seen[<<event_type, identifier>>], now),
              LAMBDA t : t >= now - alert_thresholds[event_type].window /\ t <= now)

\* C20: on each event of a configured type an alert is logged exactly when the
\* number of events of its (type, identifier) with a timestamp in
\* [now - window, now], the arriving one included, is at least the configured
\* count; the stored list is those events, alert or not, so further events in
\* the window log further alerts.
C20_AlertIffCountReached ==
    [][\A event_type \in Configured, user_id \in UserIds, ip_address \in IpAddresses :
          process_security_event(event_type, user_id, ip_address) =>
              LET identifier == IdentifierOf(user_id, ip_address)
                  N == alert_thresholds[event_type].count
                  recorded == RecordedInWindow(event_type, identifier)
              IN  /\ AlertsIn(sec_log') = IF Len(recorded) >= N THEN 1 ELSE 0
                  /\ event_counts'[event_type][identifier] = recorded]_vars

\* a fourth injection attempt within the window has logged an alert, after the
\* third had logged one
C20_Witness ==
    /\ Len(seen[<<"injection_attempt", "ip1">>]) = 4
    /\ seen[<<"injection_attempt", "ip1">>][1] >= now - 300
    /\ seen[<<"injection_attempt", "ip1">>][4] = now
    /\ Len(sec_log) = 2
    /\ sec_log[1].event_type = "injection_attempt"
    /\ sec_log[2].details.alert_type = "threshold_exceeded"
    /\ sec_log[2].details.count = 4

\* the timestamps counted for the pair
TimesOf(counts, event_type, identifier) ==
    DictGet(DictGet(counts, event_type, EmptyDict), identifier, <<>>)

\* the alert records among the records logged
AlertRecords(sec) == {i \in 1..Len(sec) : sec[i].details.alert_type # None}

InBlock(client_ip) ==
    denied_at[client_ip] # NoTime /\ now < denied_at[client_ip] + block_duration

\* C17: once a call of a client is denied because its minute or hour count has
\* reached the limit, every is_allowed call of that client made less than
\* block_duration seconds after that denial returns False, whether or not the
\* minute or the hour has changed since, and leaves the client's counters and
\* the end of its block as they were.
C17_BlockedForDuration ==
    [][\A client_ip \in BlkClients :
          (InBlock(client_ip) /\ blocking_is_allowed(client_ip)) =>
              /\ blk_ret'.allowed = FALSE
              /\ request_counts' = request_counts
              /\ client_ip \in DOMAIN blocked_ips'
              /\ blocked_ips'[client_ip] = denied_at[client_ip] + block_duration]_vars

\* a call was turned away by the block in a minute later than the one the
\* client's counters belong to
C17_Witness ==
    /\ blk_ret.reason = "blocked"
    /\ InBlock(blk_ret.client_ip)
    /\ request_counts[blk_ret.client_ip].minute_window # MinuteOf(now)
    /\ request_counts[blk_ret.client_ip].minute_count >= blk_requests_per_minute

====
